---- MODULE Spec2Model ----
(***************************************************************************)
(* Model of the AdditionalSettings server mod: the configuration          *)
(* subsystem (comment stripper, file guarantor, loader/merger, validators, *)
(* template rewriter) and the feature modules that consume the settings.   *)
(***************************************************************************)
EXTENDS Integers, Sequences, FiniteSets, TLC

(***************************************************************************)
(* JSON values.  A number is kept as its floor i and its first decimal f   *)
(* (value = i + f/10), so that Number.isInteger is f = 0 and Math.floor is *)
(* i.  Inf is a number that is not finite (JSON.parse of 1e999).           *)
(***************************************************************************)
B(b) == [t |-> "bool", b |-> b]
Num(i, f) == [t |-> "num", i |-> i, f |-> f]
Whole(i) == Num(i, 0)
Inf == [t |-> "inf"]
Str(s) == [t |-> "str", s |-> s]
Null == [t |-> "null"]
Arr(a) == [t |-> "arr", a |-> a]

TypeOf(v) ==
    CASE v.t = "bool" -> "boolean"
      [] v.t \in {"num", "inf"} -> "number"
      [] v.t = "str" -> "string"
      [] OTHER -> "object"

IsFinite(v) == v.t = "num"
IsInteger(v) == v.t = "num" /\ v.f = 0
\* v < k and v > k for a finite number v and an integer k
NumLess(v, k) == v.i < k
NumGreater(v, k) == v.i > k \/ (v.i = k /\ v.f > 0)
IsArray(v) == v.t = "arr"

SeqToSet(s) == {s[i] : i \in 1..Len(s)}

RECURSIVE SelectSeq2(_, _)
\* Array.prototype.filter with the test given as a set of accepted values' predicate
SelectSeq2(s, keep) ==
    IF s = <<>> THEN <<>>
    ELSE IF keep[1] THEN <<s[1]>> \o SelectSeq2(Tail(s), Tail(keep))
    ELSE SelectSeq2(Tail(s), Tail(keep))

(***************************************************************************)
(* Settings types and default values                                       *)
(***************************************************************************)
MainKeys ==
    << "use_weather_module", "use_plant_time_module", "use_ammo_module",
       "use_weapon_module", "LootArmbands", "SaveArmbandOnDeath", "LootMelee",
       "SaveMeleeOnDeath", "disablePMC_ChatResponse", "allow_LegaMoneyCase",
       "stacksize_lega", "removeFirForHideout", "disableSeasonEvents",
       "leaveItemAtLocationModifier", "placeBeaconModifier", "weightless_ammo",
       "weightless_ammoboxes", "weightless_grenades", "weapon_inv_shrink",
       "allow_autoupdate_configs", "enableDebugLogs" >>

WeatherKeys ==
    << "use_fixed_season", "fixed_season_index", "use_weight_system",
       "use_random_system", "random_system_mode", "exclude_seasons",
       "Summer", "Autumn", "Winter", "Spring", "LateAutumn", "EarlySpring",
       "Storm" >>

defaultMainConfigValues ==
    [ use_weather_module |-> B(FALSE),
      use_plant_time_module |-> B(FALSE),
      use_ammo_module |-> B(FALSE),
      use_weapon_module |-> B(FALSE),
      LootArmbands |-> B(TRUE),
      SaveArmbandOnDeath |-> B(FALSE),
      LootMelee |-> B(TRUE),
      SaveMeleeOnDeath |-> B(FALSE),
      disablePMC_ChatResponse |-> B(FALSE),
      allow_LegaMoneyCase |-> B(FALSE),
      stacksize_lega |-> Whole(50),
      removeFirForHideout |-> B(FALSE),
      disableSeasonEvents |-> B(FALSE),
      leaveItemAtLocationModifier |-> Whole(1),
      placeBeaconModifier |-> Whole(1),
      weightless_ammo |-> B(FALSE),
      weightless_ammoboxes |-> B(FALSE),
      weightless_grenades |-> B(FALSE),
      weapon_inv_shrink |-> B(FALSE),
      allow_autoupdate_configs |-> B(FALSE),
      enableDebugLogs |-> B(FALSE) ]

defaultWeatherConfigValues ==
    [ use_fixed_season |-> B(FALSE),
      fixed_season_index |-> Whole(1),
      use_weight_system |-> B(FALSE),
      use_random_system |-> B(TRUE),
      random_system_mode |-> Whole(0),
      exclude_seasons |-> Arr(<<>>),
      Summer |-> Whole(10),
      Autumn |-> Whole(10),
      Winter |-> Whole(10),
      Spring |-> Whole(10),
      LateAutumn |-> Whole(10),
      EarlySpring |-> Whole(10),
      Storm |-> Whole(5) ]

Kinds == {"main", "weather"}
Defaults(kind) ==
    IF kind = "main" THEN defaultMainConfigValues ELSE defaultWeatherConfigValues

(***************************************************************************)
(* Field validators.  A validation state is the config object being        *)
(* mutated in place and the resetKeys array built so far.                  *)
(***************************************************************************)
PushUnique(keys, key) ==
    IF key \in SeqToSet(keys) THEN keys ELSE Append(keys, key)

ResetTo(st, key, value) ==
    [ config |-> [st.config EXCEPT ![key] = value],
      resetKeys |-> PushUnique(st.resetKeys, key) ]

checkBoolean(st, defaults, key) ==
    IF TypeOf(st.config[key]) # "boolean"
    THEN ResetTo(st, key, defaults[key])
    ELSE st

checkNonNegativeFinite(st, defaults, key) ==
    LET v == st.config[key] IN
    IF TypeOf(v) # "number" \/ ~IsFinite(v) \/ NumLess(v, 0)
    THEN ResetTo(st, key, defaults[key])
    ELSE st

\* checkIntegerRange without the test against max
checkIntegerRange_NoUpperBound(st, defaults, key, min, max) ==
    LET v == st.config[key] IN
    IF TypeOf(v) # "number" \/ ~IsInteger(v) \/ NumLess(v, min)
    THEN ResetTo(st, key, defaults[key])
    ELSE st

checkIntegerRange(st, defaults, key, min, max) ==
    LET v == st.config[key] IN
    IF TypeOf(v) # "number" \/ ~IsInteger(v) \/ NumLess(v, min) \/ NumGreater(v, max)
    THEN ResetTo(st, key, defaults[key])
    ELSE st

RECURSIVE CheckAll(_, _, _, _)
\* the consecutive calls of one helper on the listed keys
CheckAll(st, defaults, keys, kindOfCheck) ==
    IF keys = <<>> THEN st
    ELSE CheckAll(
           IF kindOfCheck = "boolean"
           THEN checkBoolean(st, defaults, Head(keys))
           ELSE checkNonNegativeFinite(st, defaults, Head(keys)),
           defaults, Tail(keys), kindOfCheck)

MainBooleanKeys ==
    << "use_weather_module", "use_plant_time_module", "use_ammo_module",
       "use_weapon_module", "LootArmbands", "SaveArmbandOnDeath", "LootMelee",
       "SaveMeleeOnDeath", "allow_LegaMoneyCase", "removeFirForHideout",
       "disableSeasonEvents", "weightless_ammo", "weightless_ammoboxes",
       "weightless_grenades", "weapon_inv_shrink", "allow_autoupdate_configs",
       "enableDebugLogs" >>

\* checkPmcChatResponse that keeps every number
checkPmcChatResponse_AnyNumber(st, defaults) ==
    LET pmcChatValue == st.config["disablePMC_ChatResponse"] IN
    IF TypeOf(pmcChatValue) \notin {"number", "boolean"}
    THEN ResetTo(st, "disablePMC_ChatResponse", defaults["disablePMC_ChatResponse"])
    ELSE st

checkPmcChatResponse(st, defaults) ==
    LET pmcChatValue == st.config["disablePMC_ChatResponse"] IN
    IF TypeOf(pmcChatValue) = "number"
    THEN IF ~IsInteger(pmcChatValue) \/ NumLess(pmcChatValue, 1)
            \/ NumGreater(pmcChatValue, 100)
         THEN ResetTo(st, "disablePMC_ChatResponse", defaults["disablePMC_ChatResponse"])
         ELSE st
    ELSE IF TypeOf(pmcChatValue) # "boolean"
         THEN ResetTo(st, "disablePMC_ChatResponse", defaults["disablePMC_ChatResponse"])
         ELSE st

\* a stack-size check that clamps an integer above the range to the maximum
checkStackSizeLega_ClampHigh(st, defaults) ==
    LET v == st.config["stacksize_lega"] IN
    IF IsInteger(v) /\ NumGreater(v, 999)
    THEN ResetTo(st, "stacksize_lega", Whole(999))
    ELSE checkIntegerRange(st, defaults, "stacksize_lega", 1, 999)

checkStackSizeLega(st, defaults) ==
    checkIntegerRange(st, defaults, "stacksize_lega", 1, 999)

validateMainConfig(config) ==
    LET defaults == defaultMainConfigValues
        s0 == [config |-> config, resetKeys |-> <<>>]
        s1 == CheckAll(s0, defaults, MainBooleanKeys, "boolean")
        s2 == checkPmcChatResponse(s1, defaults)
        s3 == checkStackSizeLega(s2, defaults)
        s4 == CheckAll(s3, defaults,
                       <<"leaveItemAtLocationModifier", "placeBeaconModifier">>,
                       "number")
    IN s4

seasonsArrayLength == 7

ValidSeasonIndex(idx) ==
    IsInteger(idx) /\ ~NumLess(idx, 0) /\ NumLess(idx, seasonsArrayLength)

\* checkExcludeSeasons without the keep-Storm safety step
checkExcludeSeasons_NoSafety(st, defaults) ==
    LET v == st.config["exclude_seasons"] IN
    IF ~IsArray(v)
    THEN ResetTo(st, "exclude_seasons", Arr(defaults["exclude_seasons"].a))
    ELSE
      LET filtered == SelectSeq2(v.a, [i \in 1..Len(v.a) |-> ValidSeasonIndex(v.a[i])])
      IN [ config |-> [st.config EXCEPT !["exclude_seasons"] = Arr(filtered)],
           resetKeys |-> IF Len(filtered) # Len(v.a)
                         THEN PushUnique(st.resetKeys, "exclude_seasons")
                         ELSE st.resetKeys ]

checkExcludeSeasons(st, defaults) ==
    LET v == st.config["exclude_seasons"] IN
    IF ~IsArray(v)
    THEN ResetTo(st, "exclude_seasons", Arr(defaults["exclude_seasons"].a))
    ELSE
      LET originalLength == Len(v.a)
          filtered == SelectSeq2(v.a, [i \in 1..Len(v.a) |-> ValidSeasonIndex(v.a[i])])
          s1 == [ config |-> [st.config EXCEPT !["exclude_seasons"] = Arr(filtered)],
                  resetKeys |-> IF Len(filtered) # originalLength
                                THEN PushUnique(st.resetKeys, "exclude_seasons")
                                ELSE st.resetKeys ]
      IN IF Len(filtered) >= seasonsArrayLength
         THEN LET kept == SelectSeq2(filtered,
                              [i \in 1..Len(filtered) |-> filtered[i] # Whole(6)])
              IN [ config |-> [s1.config EXCEPT !["exclude_seasons"] = Arr(kept)],
                   resetKeys |-> PushUnique(s1.resetKeys, "exclude_seasons") ]
         ELSE s1

weightKeys ==
    <<"Summer", "Autumn", "Winter", "Spring", "LateAutumn", "EarlySpring", "Storm">>

validateWeatherConfig(config) ==
    LET defaults == defaultWeatherConfigValues
        s0 == [config |-> config, resetKeys |-> <<>>]
        s1 == CheckAll(s0, defaults,
                       <<"use_fixed_season", "use_weight_system", "use_random_system">>,
                       "boolean")
        s2 == checkIntegerRange(s1, defaults, "fixed_season_index", 1, 7)
        s3 == checkIntegerRange(s2, defaults, "random_system_mode", 0, 1)
        s4 == checkExcludeSeasons(s3, defaults)
        s5 == CheckAll(s4, defaults, weightKeys, "number")
    IN s5

Validate(kind, config) ==
    IF kind = "main" THEN validateMainConfig(config) ELSE validateWeatherConfig(config)

(***************************************************************************)
(* Host data the feature modules work on: item templates, hideout          *)
(* requirements, quest conditions and three server configs.                *)
(***************************************************************************)
ARMBAND_PARENT_ID == "5b3f15d486f77432d0509248"
MELEE_PARENT_ID == "5447e1d04bdc2dff2f8b4567"
MONEY_CASE_ID == "59fb016586f7746d0d4b423a"
LEGA_MEDAL_ID == "6656560053eaaa7a23349c86"
LEGA_DEFAULT_STACK == 50
LEGA_MIN_STACK == 1
LEGA_MAX_STACK == 999
LOOTABILITY_BLACKLIST == {"65ca457b4aafb5d7fc0dcb5d"}
AMMO_PARENT_ID == "5485a8684bdc2da71d8b4567"
GRENADE_PARENT_ID == "543be6564bdc2df4348b4568"
AMMOBOX_PARENT_ID == "543be5cb4bdc2deb348b4568"
MAGAZINE == "BaseClasses.MAGAZINE"
MOUNT == "BaseClasses.MOUNT"
MAGAZINE_IDS_TO_SHRINK ==
    [x \in {"6513f0a194c72326990a3868", "646372518610c40fc20204e8"} |->
       IF x = "6513f0a194c72326990a3868" THEN 0 ELSE 1]
MOUNT_IDS_TO_SHRINK ==
    [x \in {"5a37ca54c4a282000d72296a", "5aa66c72e5b5b00016327c93",
            "61713cc4d8e3106d9806c109", "6171407e50224f204c1da3c5"} |-> 0]

\* an item template: _parent and the _props the modules read or write
Item(parent, hasProps, unlootable, weight, stack, up, down, filter) ==
    [ _parent |-> parent, hasProps |-> hasProps, Unlootable |-> unlootable,
      UnlootableFromSide |-> IF unlootable THEN <<"Bear", "Usec">> ELSE <<>>,
      Weight |-> weight, StackMaxSize |-> stack, ExtraSizeUp |-> up,
      ExtraSizeDown |-> down, Filter |-> filter ]

VanillaItems ==
    [ id \in { "armband_red", "armband_lootable", "melee_knife",
               "65ca457b4aafb5d7fc0dcb5d", MONEY_CASE_ID, LEGA_MEDAL_ID,
               "ammo_round", "ammo_weightless", "ammo_box", "grenade",
               "6513f0a194c72326990a3868", "646372518610c40fc20204e8",
               "5a37ca54c4a282000d72296a", "magazine_other", "no_props" } |->
      CASE id = "armband_red" ->
             Item(ARMBAND_PARENT_ID, TRUE, TRUE, Num(0, 1), 1, 0, 0, Null)
        [] id = "armband_lootable" ->
             Item(ARMBAND_PARENT_ID, TRUE, FALSE, Num(0, 1), 1, 0, 0, Null)
        [] id = "melee_knife" ->
             Item(MELEE_PARENT_ID, TRUE, TRUE, Num(0, 3), 1, 0, 0, Null)
        [] id = "65ca457b4aafb5d7fc0dcb5d" ->
             Item(MELEE_PARENT_ID, TRUE, TRUE, Num(0, 5), 1, 0, 0, Null)
        [] id = MONEY_CASE_ID ->
             Item("container", TRUE, FALSE, Whole(1), 1, 0, 0, Arr(<<"money">>))
        [] id = LEGA_MEDAL_ID ->
             Item("barter", TRUE, FALSE, Num(0, 1), 50, 0, 0, Null)
        [] id = "ammo_round" ->
             Item(AMMO_PARENT_ID, TRUE, FALSE, Num(0, 1), 60, 0, 0, Null)
        [] id = "ammo_weightless" ->
             Item(AMMO_PARENT_ID, TRUE, FALSE, Whole(0), 60, 0, 0, Null)
        [] id = "ammo_box" ->
             Item(AMMOBOX_PARENT_ID, TRUE, FALSE, Num(0, 4), 1, 0, 0, Null)
        [] id = "grenade" ->
             Item(GRENADE_PARENT_ID, TRUE, FALSE, Num(0, 6), 1, 0, 0, Null)
        [] id = "6513f0a194c72326990a3868" ->
             Item(MAGAZINE, TRUE, FALSE, Num(0, 2), 1, 0, 2, Null)
        [] id = "646372518610c40fc20204e8" ->
             Item(MAGAZINE, TRUE, FALSE, Num(0, 2), 1, 0, 2, Null)
        [] id = "5a37ca54c4a282000d72296a" ->
             Item(MOUNT, TRUE, FALSE, Num(0, 1), 1, 1, 0, Null)
        [] id = "magazine_other" ->
             Item(MAGAZINE, TRUE, FALSE, Num(0, 2), 1, 0, 1, Null)
        [] OTHER ->
             Item(AMMO_PARENT_ID, FALSE, TRUE, Num(0, 1), 1, 1, 1, Null) ]

Condition(type, time) == [conditionType |-> type, plantTime |-> time]

\* one quest's AvailableForFinish conditions, with plant times t1 and t2
QuestConditions(t1, t2) ==
    << Condition("LeaveItemAtLocation", t1), Condition("PlaceBeacon", t2),
       Condition("LeaveItemAtLocation", Whole(1)),
       Condition("HandoverItem", Whole(10)),
       Condition("PlaceBeacon", Null) >>

\* the host's data: `has` tells which tables and configs the host hands out
Host(items, t1, t2, has) ==
    [ has |-> has,
      items |-> items,
      hideout |-> <<TRUE, FALSE, TRUE>>,        \* isSpawnedInSession flags
      quests |-> QuestConditions(t1, t2),
      pmcChat |-> [killer |-> 100, victim |-> 35],
      seasonal |-> [enableSeasonalEventDetection |-> TRUE,
                    events |-> <<TRUE, FALSE, TRUE>>],
      lostOnDeath |-> [ArmBand |-> TRUE, Scabbard |-> TRUE] ]

AllTables == {"items", "hideout", "quests", "pmcChat", "seasonal", "lostOnDeath"}

(***************************************************************************)
(* CoreModule                                                              *)
(***************************************************************************)
MakeLootable(item) ==
    [item EXCEPT !.Unlootable = FALSE, !.UnlootableFromSide = <<>>]

\* the lootability tweak without the blacklist test
applyLootabilitySettings_NoBlacklist(items, config) ==
    [ itemId \in DOMAIN items |->
        LET item == items[itemId] IN
        IF /\ item.hasProps /\ item.Unlootable
           /\ \/ item._parent = ARMBAND_PARENT_ID /\ config.LootArmbands = B(TRUE)
              \/ item._parent = MELEE_PARENT_ID /\ config.LootMelee = B(TRUE)
        THEN MakeLootable(item) ELSE item ]

applyLootabilitySettings(items, config) ==
    [ itemId \in DOMAIN items |->
        LET item == items[itemId]
            isBlacklisted == itemId \in LOOTABILITY_BLACKLIST
            afterArmband ==
                IF /\ item._parent = ARMBAND_PARENT_ID /\ item.Unlootable
                   /\ config.LootArmbands = B(TRUE) /\ ~isBlacklisted
                THEN MakeLootable(item) ELSE item
        IN  IF ~item.hasProps THEN item
            ELSE IF /\ afterArmband._parent = MELEE_PARENT_ID
                    /\ afterArmband.Unlootable
                    /\ config.LootMelee = B(TRUE) /\ ~isBlacklisted
                 THEN MakeLootable(afterArmband) ELSE afterArmband ]

\* the same without the duplicate check: the id is pushed on every call
allowItemInContainer_AlwaysPush(items, containerId, itemIdToAdd) ==
    IF containerId \notin DOMAIN items \/ itemIdToAdd \notin DOMAIN items
    THEN items
    ELSE LET filterArray == IF items[containerId].hasProps
                            THEN items[containerId].Filter ELSE Null
         IN  IF ~IsArray(filterArray) THEN items
             ELSE [items EXCEPT ![containerId].Filter =
                       Arr(Append(filterArray.a, itemIdToAdd))]

allowItemInContainer(items, containerId, itemIdToAdd) ==
    IF containerId \notin DOMAIN items \/ itemIdToAdd \notin DOMAIN items
    THEN items
    ELSE LET filterArray == IF items[containerId].hasProps
                            THEN items[containerId].Filter ELSE Null
         IN  IF ~IsArray(filterArray) THEN items
             ELSE IF itemIdToAdd \in SeqToSet(filterArray.a) THEN items
             ELSE [items EXCEPT ![containerId].Filter =
                       Arr(Append(filterArray.a, itemIdToAdd))]

applyContainerSettings(items, config) ==
    IF config.allow_LegaMoneyCase = B(TRUE)
    THEN allowItemInContainer(items, MONEY_CASE_ID, LEGA_MEDAL_ID)
    ELSE items

\* the clamped stack size, floored to an integer
FinalStackSize(configuredStackSize, defaultStackSize, minStackSize, maxStackSize) ==
    IF NumLess(configuredStackSize, minStackSize) THEN defaultStackSize
    ELSE IF NumGreater(configuredStackSize, maxStackSize) THEN maxStackSize
    ELSE configuredStackSize.i

applyItemStackSize(items, itemId, configuredStackSize, defaultStackSize, minStackSize, maxStackSize) ==
    LET finalStackSize == FinalStackSize(configuredStackSize, defaultStackSize,
                                         minStackSize, maxStackSize)
    IN  IF itemId \notin DOMAIN items \/ ~items[itemId].hasProps THEN items
        ELSE IF items[itemId].StackMaxSize # finalStackSize
             THEN [items EXCEPT ![itemId].StackMaxSize = finalStackSize]
             ELSE items

applyItemStackSizeSettings(items, config) ==
    applyItemStackSize(items, LEGA_MEDAL_ID, config.stacksize_lega,
                       LEGA_DEFAULT_STACK, LEGA_MIN_STACK, LEGA_MAX_STACK)

applyHideoutSettings(hideout, config) ==
    IF config.removeFirForHideout # B(TRUE) THEN hideout
    ELSE [r \in DOMAIN hideout |-> FALSE]

applyPmcChatSettings(pmcChat, config) ==
    LET settingValue == config.disablePMC_ChatResponse
        targetPercent == IF settingValue = B(TRUE) THEN 0 ELSE settingValue.i
    IN  IF settingValue = B(FALSE) THEN pmcChat
        ELSE [killer |-> targetPercent, victim |-> targetPercent]

applySeasonalEventSettings(seasonal, config) ==
    IF config.disableSeasonEvents # B(TRUE) THEN seasonal
    ELSE [ enableSeasonalEventDetection |-> FALSE,
           events |-> [e \in DOMAIN seasonal.events |-> FALSE] ]

runPostDbLogic(host, config) ==
    LET items1 == IF "items" \in host.has
                  THEN applyItemStackSizeSettings(
                         applyContainerSettings(
                           applyLootabilitySettings(host.items, config), config),
                         config)
                  ELSE host.items
        hideout1 == IF "hideout" \in host.has
                    THEN applyHideoutSettings(host.hideout, config)
                    ELSE host.hideout
        pmc1 == IF "pmcChat" \in host.has
                THEN applyPmcChatSettings(host.pmcChat, config)
                ELSE host.pmcChat
        seasonal1 == IF "seasonal" \in host.has
                     THEN applySeasonalEventSettings(host.seasonal, config)
                     ELSE host.seasonal
    IN  [host EXCEPT !.items = items1, !.hideout = hideout1,
                     !.pmcChat = pmc1, !.seasonal = seasonal1]

(***************************************************************************)
(* LostOnDeathModule, AmmoModule, WeaponModule                             *)
(***************************************************************************)
applyLostOnDeathChanges(host, config) ==
    IF "lostOnDeath" \notin host.has THEN host
    ELSE IF config.SaveArmbandOnDeath # B(TRUE) /\ config.SaveMeleeOnDeath # B(TRUE)
    THEN host
    ELSE [host EXCEPT
            !.lostOnDeath.ArmBand =
                IF config.SaveArmbandOnDeath = B(TRUE) /\ @ THEN FALSE ELSE @,
            !.lostOnDeath.Scabbard =
                IF config.SaveMeleeOnDeath = B(TRUE) /\ @ THEN FALSE ELSE @]

applyAmmoWeightChanges(host, config) ==
    IF "items" \notin host.has THEN host
    ELSE [host EXCEPT !.items =
            [ itemId \in DOMAIN host.items |->
                LET item == host.items[itemId]
                IN  IF \/ ~item.hasProps \/ TypeOf(item.Weight) # "number"
                       \/ item.Weight = Whole(0)
                    THEN item
                    ELSE IF \/ /\ config.weightless_ammo = B(TRUE)
                               /\ item._parent = AMMO_PARENT_ID
                            \/ /\ config.weightless_ammoboxes = B(TRUE)
                               /\ item._parent = AMMOBOX_PARENT_ID
                            \/ /\ config.weightless_grenades = B(TRUE)
                               /\ item._parent = GRENADE_PARENT_ID
                         THEN [item EXCEPT !.Weight = Whole(0)]
                         ELSE item ]]

applyAllChanges(host, config) ==
    IF \/ config.weightless_ammo = B(TRUE)
       \/ config.weightless_ammoboxes = B(TRUE)
       \/ config.weightless_grenades = B(TRUE)
    THEN applyAmmoWeightChanges(host, config)
    ELSE host

applyInventoryShrink(host) ==
    IF "items" \notin host.has THEN host
    ELSE [host EXCEPT !.items =
            [ itemId \in DOMAIN host.items |->
                LET item == host.items[itemId]
                    afterMagazine ==
                        IF /\ item._parent = MAGAZINE
                           /\ itemId \in DOMAIN MAGAZINE_IDS_TO_SHRINK
                        THEN [item EXCEPT !.ExtraSizeDown =
                                              MAGAZINE_IDS_TO_SHRINK[itemId]]
                        ELSE item
                IN  IF ~item.hasProps THEN item
                    ELSE IF /\ item._parent = MOUNT
                            /\ itemId \in DOMAIN MOUNT_IDS_TO_SHRINK
                         THEN [afterMagazine EXCEPT !.ExtraSizeUp =
                                                  MOUNT_IDS_TO_SHRINK[itemId]]
                         ELSE afterMagazine ]]

applyWeaponChanges(host, config) ==
    IF config.weapon_inv_shrink = B(TRUE) THEN applyInventoryShrink(host)
    ELSE host

(***************************************************************************)
(* PlantTimeModule                                                         *)
(***************************************************************************)
Max(a, b) == IF a >= b THEN a ELSE b

\* Math.max(1, Math.round(originalTime * modifier)) on values in tenths
ScaledPlantTime(originalTime, modifier) ==
    Whole(Max(1, ((10 * originalTime.i + originalTime.f)
                     * (10 * modifier.i + modifier.f) + 50) \div 100))

applyPlantTimeChanges(host, config) ==
    LET leaveModifier == config.leaveItemAtLocationModifier
        beaconModifier == config.placeBeaconModifier
    IN  IF leaveModifier = Whole(1) /\ beaconModifier = Whole(1) THEN host
        ELSE IF "quests" \notin host.has THEN host
        ELSE [host EXCEPT !.quests =
                [ n \in DOMAIN host.quests |->
                    LET condition == host.quests[n]
                        originalTime == condition.plantTime
                    IN  IF TypeOf(originalTime) # "number" \/ ~IsFinite(originalTime)
                        THEN condition
                        ELSE IF /\ condition.conditionType = "LeaveItemAtLocation"
                                /\ leaveModifier # Whole(1)
                        THEN [condition EXCEPT !.plantTime =
                                  ScaledPlantTime(originalTime, leaveModifier)]
                        ELSE IF /\ condition.conditionType = "PlaceBeacon"
                                /\ beaconModifier # Whole(1)
                        THEN [condition EXCEPT !.plantTime =
                                  ScaledPlantTime(originalTime, beaconModifier)]
                        ELSE condition ]]

(***************************************************************************)
(* Config text.  A text is a sequence of tokens: each of the characters    *)
(*   / * " ' \ : , { } [ ]   is a token of its own, " " is a run of blanks *)
(* within a line, "\n" is a line break, and every other token is a word    *)
(* (a key name, a literal, a word of a comment) holding none of these.     *)
(***************************************************************************)
IsSpace(tok) == tok \in {" ", "\n"}

Min(S) == CHOOSE x \in S : \A y \in S : x <= y

\* the literals of numbers, as JSON.stringify writes them
CanonicalNumbers ==
    [ w \in { "0", "1", "2", "3", "4", "5", "6", "7", "8", "10", "50", "55", "100",
              "150", "999", "1000", "-5", "0.5", "1.5", "55.7" } |->
      CASE w = "0" -> Whole(0) [] w = "1" -> Whole(1) [] w = "2" -> Whole(2)
        [] w = "3" -> Whole(3) [] w = "4" -> Whole(4) [] w = "5" -> Whole(5)
        [] w = "6" -> Whole(6) [] w = "7" -> Whole(7) [] w = "8" -> Whole(8)
        [] w = "10" -> Whole(10) [] w = "50" -> Whole(50) [] w = "55" -> Whole(55)
        [] w = "100" -> Whole(100) [] w = "150" -> Whole(150)
        [] w = "999" -> Whole(999) [] w = "1000" -> Whole(1000)
        [] w = "-5" -> Whole(-5) [] w = "0.5" -> Num(0, 5)
        [] w = "1.5" -> Num(1, 5) [] OTHER -> Num(55, 7) ]

\* every number literal a file may hold: 1.00 reads as 1, 1e999 as Infinity
NumberLiterals ==
    [ w \in DOMAIN CanonicalNumbers \cup {"1.00", "1e999"} |->
      IF w = "1.00" THEN Whole(1)
      ELSE IF w = "1e999" THEN Inf
      ELSE CanonicalNumbers[w] ]

(***************************************************************************)
(* stripJsonComments, fixTrailingCommas                                    *)
(***************************************************************************)
\* first index j >= from where "*" "/" closes a block comment, 0 if none
BlockEnd(t, from) ==
    LET S == {j \in from..(Len(t) - 1) : t[j] = "*" /\ t[j + 1] = "/"}
    IN  IF S = {} THEN 0 ELSE Min(S)

\* jsonString.replace(/\/\*[\s\S]*?\*\//g, ''), from position i on;
\* opens holds the positions where a match can start
RECURSIVE StripBlockComments(_, _, _)
StripBlockComments(t, i, opens) ==
    LET S == {j \in opens : j >= i}
    IN  IF S = {} THEN SubSeq(t, i, Len(t))
        ELSE SubSeq(t, i, Min(S) - 1)
             \o StripBlockComments(t, BlockEnd(t, Min(S) + 2) + 2, opens)

BlockOpens(t) ==
    {j \in 1..(Len(t) - 1) : t[j] = "/" /\ t[j + 1] = "*" /\ BlockEnd(t, j + 2) # 0}

\* index of the line break that ends the line of position i (Len + 1 if none)
RECURSIVE LineEnd(_, _)
LineEnd(t, i) ==
    IF i > Len(t) \/ t[i] = "\n" THEN i ELSE LineEnd(t, i + 1)

\* uncommented.replace(/(?<![:"'\\])\/\/.*$/gm, ''), from position i on;
\* opens holds the positions where a match can start
RECURSIVE StripLineComments(_, _, _)
StripLineComments(t, i, opens) ==
    LET S == {j \in opens : j >= i}
    IN  IF S = {} THEN SubSeq(t, i, Len(t))
        ELSE SubSeq(t, i, Min(S) - 1)
             \o StripLineComments(t, LineEnd(t, Min(S)), opens)

LineOpens(t) ==
    {j \in 1..(Len(t) - 1) :
       /\ t[j] = "/" /\ t[j + 1] = "/"
       /\ (j = 1 \/ t[j - 1] \notin {":", "\"", "'", "\\"})}

\* String.prototype.trim
Trim(t) ==
    LET S == {j \in 1..Len(t) : ~IsSpace(t[j])}
    IN  IF S = {} THEN <<>>
        ELSE SubSeq(t, Min(S), CHOOSE x \in S : \A y \in S : y <= x)

\* stripJsonComments without the pass that removes line comments
stripJsonComments_BlockOnly(jsonString) ==
    Trim(StripBlockComments(jsonString, 1, BlockOpens(jsonString)))

stripJsonComments(jsonString) ==
    LET uncommented == StripBlockComments(jsonString, 1, BlockOpens(jsonString))
    IN  Trim(StripLineComments(uncommented, 1, LineOpens(uncommented)))

\* first index >= i that holds no white space (Len + 1 if none)
RECURSIVE SkipSpace(_, _)
SkipSpace(t, i) ==
    IF i <= Len(t) /\ IsSpace(t[i]) THEN SkipSpace(t, i + 1) ELSE i

\* jsonString.replace(/,\s*([}\]])/g, "$1"), from position i on;
\* commas holds the positions where a match can start
RECURSIVE FixCommas(_, _, _)
FixCommas(t, i, commas) ==
    LET S == {j \in commas : j >= i}
    IN  IF S = {} THEN SubSeq(t, i, Len(t))
        ELSE SubSeq(t, i, Min(S) - 1)
             \o FixCommas(t, SkipSpace(t, Min(S) + 1), commas)

TrailingCommas(t) ==
    {j \in 1..Len(t) :
       /\ t[j] = ","
       /\ SkipSpace(t, j + 1) <= Len(t)
       /\ t[SkipSpace(t, j + 1)] \in {"}", "]"}}

fixTrailingCommas(jsonString) == FixCommas(jsonString, 1, TrailingCommas(jsonString))

(***************************************************************************)
(* jsonUtil.deserialize on a well-formed host: JSON.parse                  *)
(***************************************************************************)
\* a parsed object: its keys in insertion order and the value of each key;
\* a key is the token sequence between its quotes
Obj(keys, val) == [t |-> "obj", keys |-> keys, val |-> val]
EmptyObj == Obj(<<>>, [k \in {} |-> Null])
SetKey(obj, key, v) ==
    Obj(IF key \in DOMAIN obj.val THEN obj.keys ELSE Append(obj.keys, key),
        [k \in DOMAIN obj.val \cup {key} |-> IF k = key THEN v ELSE obj.val[k]])

\* result of a parsing step: the value read and the index after it
Parsed(v, next) == [ok |-> TRUE, v |-> v, next |-> next]
SyntaxError == [ok |-> FALSE, v |-> Null, next |-> 0]

\* a string literal whose opening quote is at i - 1; acc is its content so far
RECURSIVE ParseString(_, _, _)
ParseString(t, i, acc) ==
    IF i > Len(t) \/ t[i] = "\n" THEN SyntaxError
    ELSE IF t[i] = "\"" THEN Parsed(Str(acc), i + 1)
    ELSE IF t[i] = "\\"
    THEN IF i < Len(t) /\ t[i + 1] \in {"\"", "\\", "/"}
         THEN ParseString(t, i + 2, Append(acc, t[i + 1]))
         ELSE SyntaxError
    ELSE ParseString(t, i + 1, Append(acc, t[i]))

RECURSIVE ParseValue(_, _)
RECURSIVE ParseMembers(_, _, _)
RECURSIVE ParseElements(_, _, _)

\* the members of an object from the key at i on
ParseMembers(t, i, obj) ==
    IF i > Len(t) \/ t[i] # "\"" THEN SyntaxError
    ELSE LET key == ParseString(t, i + 1, <<>>)
             colon == IF key.ok THEN SkipSpace(t, key.next) ELSE 0
             value == IF key.ok /\ colon <= Len(t) /\ t[colon] = ":"
                      THEN ParseValue(t, SkipSpace(t, colon + 1))
                      ELSE SyntaxError
             after == IF value.ok THEN SkipSpace(t, value.next) ELSE 0
         IN  IF ~value.ok \/ after > Len(t) THEN SyntaxError
             ELSE IF t[after] = "}"
             THEN Parsed(SetKey(obj, key.v.s, value.v), after + 1)
             ELSE IF t[after] = ","
             THEN ParseMembers(t, SkipSpace(t, after + 1),
                               SetKey(obj, key.v.s, value.v))
             ELSE SyntaxError

\* the elements of an array from the value at i on
ParseElements(t, i, acc) ==
    LET value == ParseValue(t, i)
        after == IF value.ok THEN SkipSpace(t, value.next) ELSE 0
    IN  IF ~value.ok \/ after > Len(t) THEN SyntaxError
        ELSE IF t[after] = "]" THEN Parsed(Arr(Append(acc, value.v)), after + 1)
        ELSE IF t[after] = ","
        THEN ParseElements(t, SkipSpace(t, after + 1), Append(acc, value.v))
        ELSE SyntaxError

ParseValue(t, i) ==
    IF i > Len(t) THEN SyntaxError
    ELSE IF t[i] = "\"" THEN ParseString(t, i + 1, <<>>)
    ELSE IF t[i] = "{"
    THEN IF SkipSpace(t, i + 1) <= Len(t) /\ t[SkipSpace(t, i + 1)] = "}"
         THEN Parsed(EmptyObj, SkipSpace(t, i + 1) + 1)
         ELSE ParseMembers(t, SkipSpace(t, i + 1), EmptyObj)
    ELSE IF t[i] = "["
    THEN IF SkipSpace(t, i + 1) <= Len(t) /\ t[SkipSpace(t, i + 1)] = "]"
         THEN Parsed(Arr(<<>>), SkipSpace(t, i + 1) + 1)
         ELSE ParseElements(t, SkipSpace(t, i + 1), <<>>)
    ELSE IF t[i] = "true" THEN Parsed(B(TRUE), i + 1)
    ELSE IF t[i] = "false" THEN Parsed(B(FALSE), i + 1)
    ELSE IF t[i] = "null" THEN Parsed(Null, i + 1)
    ELSE IF t[i] \in DOMAIN NumberLiterals THEN Parsed(NumberLiterals[t[i]], i + 1)
    ELSE SyntaxError

\* JSON.parse: one value, then nothing but white space
JsonParse(text) ==
    LET value == ParseValue(text, SkipSpace(text, 1))
    IN  IF value.ok /\ SkipSpace(text, value.next) > Len(text)
        THEN [ok |-> TRUE, v |-> value.v]
        ELSE [ok |-> FALSE, v |-> Null]

(***************************************************************************)
(* JSON.stringify                                                          *)
(***************************************************************************)
RECURSIVE Escaped(_)
Escaped(s) ==
    IF s = <<>> THEN <<>>
    ELSE (IF Head(s) \in {"\"", "\\"} THEN <<"\\", Head(s)>> ELSE <<Head(s)>>)
         \o Escaped(Tail(s))

RECURSIVE JsonStringify(_)
RECURSIVE StringifyElements(_)
StringifyElements(a) ==
    IF a = <<>> THEN <<>>
    ELSE JsonStringify(Head(a))
         \o (IF Len(a) > 1 THEN <<",">> ELSE <<>>)
         \o StringifyElements(Tail(a))

RECURSIVE StringifyMembers(_, _)
StringifyMembers(keys, val) ==
    IF keys = <<>> THEN <<>>
    ELSE <<"\"">> \o Escaped(Head(keys)) \o <<"\"", ":">> \o JsonStringify(val[Head(keys)])
         \o (IF Len(keys) > 1 THEN <<",">> ELSE <<>>)
         \o StringifyMembers(Tail(keys), val)

JsonStringify(v) ==
    CASE v.t = "bool" -> IF v.b THEN <<"true">> ELSE <<"false">>
      [] v.t = "num" -> <<CHOOSE w \in DOMAIN CanonicalNumbers : CanonicalNumbers[w] = v>>
      [] v.t \in {"inf", "null"} -> <<"null">>
      [] v.t = "str" -> <<"\"">> \o Escaped(v.s) \o <<"\"">>
      [] v.t = "arr" -> <<"[">> \o StringifyElements(v.a) \o <<"]">>
      [] OTHER -> <<"{">> \o StringifyMembers(v.keys, v.val) \o <<"}">>

(***************************************************************************)
(* The bundled templates.  Each entry keeps its "Default:" comment line;   *)
(* the other comment lines are kept where their content differs in kind    *)
(* (a quoted word, a bracketed example with a second //, trailing comment  *)
(* lines before the closing brace).                                        *)
(***************************************************************************)
TemplateLiteral(kind, key) ==
    IF kind = "main"
    THEN CASE key \in {"LootArmbands", "LootMelee"} -> <<"true">>
           [] key = "stacksize_lega" -> <<"50">>
           [] key \in {"leaveItemAtLocationModifier", "placeBeaconModifier"} -> <<"1.00">>
           [] OTHER -> <<"false">>
    ELSE CASE key \in {"use_fixed_season", "use_weight_system"} -> <<"false">>
           [] key = "use_random_system" -> <<"true">>
           [] key = "fixed_season_index" -> <<"1">>
           [] key = "Storm" -> <<"5">>
           [] key = "random_system_mode" -> <<"0">>
           [] key = "exclude_seasons" -> <<"[", "]">>
           [] OTHER -> <<"10">>

CommentLine(words) == <<" ", "/", "/", " ">> \o words \o <<"\n">>

EntryLine(key, literal, last) ==
    <<" ", "\"", key, "\"", ":", " ">> \o literal
    \o (IF last THEN <<>> ELSE <<",">>) \o <<"\n">>

\* the order of the entries in the template text
TemplateKeys(kind) ==
    IF kind = "main" THEN MainKeys
    ELSE << "use_fixed_season", "fixed_season_index", "use_weight_system",
            "Summer", "Autumn", "Winter", "Spring", "LateAutumn", "EarlySpring",
            "Storm", "use_random_system", "random_system_mode", "exclude_seasons" >>

\* the comment lines in front of an entry
EntryComments(kind, key) ==
    IF key \in {"Autumn", "Winter", "Spring", "LateAutumn", "EarlySpring", "Storm"}
    THEN <<>>
    ELSE IF key = "exclude_seasons"
    THEN <<"\n">>
         \o CommentLine(<<"Example", ":", " ", "[", "2", ",", " ", "6", "]",
                          " ", "/", "/", " ", "Exclude", " ", "Winter">>)
         \o CommentLine(<<"Default", ":", " ", "[", "]", " ", "(", "no",
                          " ", "exclusions", ")">>)
    ELSE <<"\n">>
         \o CommentLine(<<"Default", ":", " ">> \o TemplateLiteral(kind, key))

\* the entry lines of the keys, each with the literal given for it; a key
\* without a literal has no line; only the last key of the template has no comma
RECURSIVE EntryLines(_, _, _)
EntryLines(kind, keys, literal) ==
    IF keys = <<>> THEN <<>>
    ELSE (IF Head(keys) \in DOMAIN literal
          THEN EntryComments(kind, Head(keys))
               \o EntryLine(Head(keys), literal[Head(keys)], Len(keys) = 1)
          ELSE <<>>)
         \o EntryLines(kind, Tail(keys), literal)

\* a config text in the layout of the template: extra holds further lines
\* put in front of the first entry
ConfigText(kind, literal, extra) ==
    (IF kind = "main"
     THEN <<"/", "/", " ", "Default", " ", "Configuration", "\n", "{", "\n">>
          \o CommentLine(<<"---", " ", "Module", " ", "Activation", " ", "---">>)
     ELSE <<"/", "/", " ", "Used", " ", "only", " ", "if", " ", "\"",
            "use_weather_module", "\"", " ", "is", " ", "true", "\n", "{", "\n">>)
    \o extra
    \o EntryLines(kind, TemplateKeys(kind), literal)
    \o (IF kind = "main" THEN <<>>
        ELSE <<"\n">> \o CommentLine(<<"---", " ", "FIKA", " ", "Integration", " ", "---">>))
    \o <<"}", "\n">>

TemplateLiterals(kind) ==
    [key \in DOMAIN Defaults(kind) |-> TemplateLiteral(kind, key)]

DEFAULT_MAIN_CONFIG_JSONC == ConfigText("main", TemplateLiterals("main"), <<>>)

DEFAULT_WEATHER_CONFIG_JSONC == ConfigText("weather", TemplateLiterals("weather"), <<>>)

Template(kind) ==
    IF kind = "main" THEN DEFAULT_MAIN_CONFIG_JSONC ELSE DEFAULT_WEATHER_CONFIG_JSONC

KeysOf(kind) == IF kind = "main" THEN MainKeys ELSE WeatherKeys

(***************************************************************************)
(* rebuildConfigStringWithComments                                         *)
(***************************************************************************)
\* end of the string literal matched by "(?:[^"\\]|\\.)*" from i on, 0 if none
RECURSIVE PatternStringEnd(_, _)
PatternStringEnd(t, i) ==
    IF i > Len(t) THEN 0
    ELSE IF t[i] = "\"" THEN i
    ELSE IF t[i] = "\\"
    THEN IF i < Len(t) /\ t[i + 1] # "\n" THEN PatternStringEnd(t, i + 2) ELSE 0
    ELSE PatternStringEnd(t, i + 1)

\* index of the last token of the old value that starts at i, 0 if none
OldValueEnd(t, i) ==
    IF i > Len(t) THEN 0
    ELSE IF t[i] = "\"" THEN PatternStringEnd(t, i + 1)
    ELSE IF t[i] \in {"true", "false", "null"} \cup DOMAIN NumberLiterals THEN i
    ELSE IF t[i] \in {"[", "{"}
    THEN LET S == {j \in (i + 1)..Len(t) : t[j] = (IF t[i] = "[" THEN "]" ELSE "}")}
         IN  IF S = {} THEN 0 ELSE Min(S)
    ELSE 0

\* (\s*,?\s*(?:\/\/.*)?)$ matches from position a on
SuffixMatches(t, a) ==
    LET afterSpace(X) == UNION {x..SkipSpace(t, x) : x \in X}
        s1 == afterSpace({a})
        s2 == s1 \cup {x + 1 : x \in {y \in s1 : y <= Len(t) /\ t[y] = ","}}
        s3 == afterSpace(s2)
        s4 == s3 \cup {LineEnd(t, x) :
                         x \in {y \in s3 : y < Len(t) /\ t[y] = "/" /\ t[y + 1] = "/"}}
    IN  \E x \in s4 : x = Len(t) + 1 \/ t[x] = "\n"

\* the positions of the opening quote of a line that defines the key
KeyLineMatches(t, key) ==
    { p \in 1..(Len(t) - 2) :
        /\ t[p] = "\"" /\ t[p + 1] = key /\ t[p + 2] = "\""
        /\ \E q \in 1..p : /\ (q = 1 \/ t[q - 1] = "\n")
                           /\ \A j \in q..(p - 1) : IsSpace(t[j])
        /\ LET colon == SkipSpace(t, p + 3)
               start == SkipSpace(t, colon + 1)
           IN  /\ colon <= Len(t) /\ t[colon] = ":"
               /\ OldValueEnd(t, start) # 0
               /\ SuffixMatches(t, OldValueEnd(t, start) + 1) }

\* the text with the value of the first line that defines the key replaced
ReplaceKeyLine(t, key, value) ==
    LET matches == KeyLineMatches(t, key)
        p == Min(matches)
        start == SkipSpace(t, SkipSpace(t, p + 3) + 1)
    IN  IF matches = {} THEN t
        ELSE SubSeq(t, 1, start - 1) \o JsonStringify(value)
             \o SubSeq(t, OldValueEnd(t, start) + 1, Len(t))

RECURSIVE RebuildKeys(_, _, _)
RebuildKeys(rebuiltString, data, keys) ==
    IF keys = <<>> THEN rebuiltString
    ELSE RebuildKeys(ReplaceKeyLine(rebuiltString, Head(keys), data[Head(keys)]),
                     data, Tail(keys))

\* a rebuild that gives up (null) when a key of data has no line in the template
rebuildConfigStringWithComments_AbortOnMiss(templateString, data, keys) ==
    IF \E i \in 1..Len(keys) : KeyLineMatches(templateString, keys[i]) = {}
    THEN <<>>
    ELSE RebuildKeys(templateString, data, keys)

\* the rebuilt text (the keys of data are visited in the order of the type)
rebuildConfigStringWithComments(templateString, data, keys) ==
    RebuildKeys(templateString, data, keys)

(***************************************************************************)
(* ensureFileExists, loadAndValidateConfigFile, loadMainConfig,            *)
(* loadWeatherConfig                                                       *)
(***************************************************************************)
\* a config file on disk
File(exists, text) == [exists |-> exists, text |-> text]
NoFile == File(FALSE, <<>>)

\* what deserialize hands back when it reports a failure without throwing
Undefined == [t |-> "undefined"]

\* JavaScript truthiness of a deserialized value
Truthy(v) ==
    CASE v.t \in {"undefined", "null"} -> FALSE
      [] v.t = "bool" -> v.b
      [] v.t = "num" -> v # Whole(0)
      [] v.t = "str" -> v.s # <<>>
      [] OTHER -> TRUE

\* writeFails: the host refuses the write
ensureFileExists(file, defaultConfigJsonc, writeFails) ==
    IF file.exists THEN [ok |-> TRUE, outcome |-> "existed", file |-> file]
    ELSE IF writeFails THEN [ok |-> FALSE, outcome |-> "failed", file |-> file]
    ELSE [ok |-> TRUE, outcome |-> "created", file |-> File(TRUE, defaultConfigJsonc)]

\* the outcome of a load, as the caller and the disk see it
Outcome(path, loadedConfig, merged, settings, resetKeys, needsRewrite, rebuilt, file) ==
    [ path |-> path, readAttempted |-> TRUE, loaded |-> loadedConfig, merged |-> merged,
      settings |-> settings, resetKeys |-> resetKeys,
      needsRewrite |-> needsRewrite, rebuilt |-> rebuilt, file |-> file ]

\* a merge that coerces: a file value of another type than the default's
\* gives way to the default
MergeWithDefaults_Coerce(loadedConfig, defaults) ==
    IF Truthy(loadedConfig) /\ loadedConfig.t = "obj"
    THEN [k \in DOMAIN defaults |->
            IF /\ <<k>> \in DOMAIN loadedConfig.val
               /\ TypeOf(loadedConfig.val[<<k>>]) = TypeOf(defaults[k])
            THEN loadedConfig.val[<<k>>]
            ELSE defaults[k]]
    ELSE defaults

\* step 3 of the loader: mergedConfig
MergeWithDefaults(loadedConfig, defaults) ==
    IF Truthy(loadedConfig) /\ loadedConfig.t = "obj"
    THEN [k \in DOMAIN defaults |->
            IF <<k>> \in DOMAIN loadedConfig.val THEN loadedConfig.val[<<k>>]
            ELSE defaults[k]]
    ELSE defaults

\* step 3 of the loader: fileNeedsUpdate after the merge
MissingDefaultKey(loadedConfig, defaults) ==
    IF Truthy(loadedConfig) /\ loadedConfig.t = "obj"
    THEN \E k \in DOMAIN defaults : <<k>> \notin DOMAIN loadedConfig.val
    ELSE TRUE

\* how the deserialized value went through the merge
MergePath(loadedConfig) ==
    CASE loadedConfig.t = "undefined" -> "undefined"
      [] ~Truthy(loadedConfig) -> "falsy"
      [] loadedConfig.t # "obj" -> "nonObject"
      [] OTHER -> "object"

\* steps 3 to 6 of the loader with a write-back that does not ask for
\* allowWriteBack
MergeValidateWrite_NoGate(kind, file, loadedConfig, allowWriteBack, rebuildFails, writeFails) ==
    LET merged == MergeWithDefaults(loadedConfig, Defaults(kind))
        validated == Validate(kind, merged)
        fileNeedsUpdate == \/ MissingDefaultKey(loadedConfig, Defaults(kind))
                           \/ validated.resetKeys # <<>>
        updatedJsoncString ==
            rebuildConfigStringWithComments(Template(kind), validated.config, KeysOf(kind))
        rebuilt == fileNeedsUpdate /\ ~rebuildFails /\ updatedJsoncString # <<>>
    IN  Outcome(MergePath(loadedConfig), loadedConfig,
                merged, validated.config, validated.resetKeys, fileNeedsUpdate,
                allowWriteBack /\ rebuilt,
                IF rebuilt /\ ~writeFails THEN File(TRUE, updatedJsoncString) ELSE file)

\* steps 3 to 6 of the loader, from the deserialized value on
MergeValidateWrite(kind, file, loadedConfig, allowWriteBack, rebuildFails, writeFails) ==
    LET merged == MergeWithDefaults(loadedConfig, Defaults(kind))
        validated == Validate(kind, merged)
        fileNeedsUpdate == \/ MissingDefaultKey(loadedConfig, Defaults(kind))
                           \/ validated.resetKeys # <<>>
        updatedJsoncString ==
            rebuildConfigStringWithComments(Template(kind), validated.config, KeysOf(kind))
        rebuilt == allowWriteBack /\ fileNeedsUpdate /\ ~rebuildFails
                   /\ updatedJsoncString # <<>>
    IN  Outcome(MergePath(loadedConfig), loadedConfig,
                merged, validated.config, validated.resetKeys, fileNeedsUpdate,
                rebuilt,
                IF rebuilt /\ ~writeFails THEN File(TRUE, updatedJsoncString) ELSE file)

\* steps 1 and 2 of the loader up to JSON.parse: the sanitized text and its parse
SanitizeAndParse(rawContent) ==
    LET processedContent == fixTrailingCommas(stripJsonComments(rawContent))
    IN  [processed |-> processedContent, parse |-> JsonParse(processedContent)]

\* content is SanitizeAndParse(file.text);
\* parserThrows: jsonUtil.deserialize throws on a syntax error (it hands
\* back undefined otherwise); readFails, rebuildFails, writeFails: the read,
\* the rebuild or the write-back raises an error
loadAndValidateConfigFile(kind, file, content, allowWriteBack, parserThrows, readFails, rebuildFails, writeFails) ==
    LET Defaulted(path) ==
            Outcome(path, Null, Defaults(kind), Defaults(kind), <<>>, FALSE, FALSE, file)
    IN  IF ~file.exists \/ readFails THEN Defaulted("readError")
        ELSE IF Trim(content.processed) = <<>> THEN Defaulted("empty")
        ELSE IF ~content.parse.ok /\ parserThrows THEN Defaulted("parseThrew")
        ELSE MergeValidateWrite(kind, file,
                                IF content.parse.ok THEN content.parse.v ELSE Undefined,
                                allowWriteBack, rebuildFails, writeFails)

\* a preliminary read that takes every truthy flag value for true
PreliminaryAllowWriteBack_Truthy(file, content, readFails) ==
    LET parse == content.parse
        default == defaultMainConfigValues["allow_autoupdate_configs"].b
    IN  IF ~file.exists \/ readFails \/ content.processed = <<>> THEN default
        ELSE IF ~parse.ok \/ parse.v.t # "obj" THEN default
        ELSE IF <<"allow_autoupdate_configs">> \in DOMAIN parse.v.val
        THEN Truthy(parse.v.val[<<"allow_autoupdate_configs">>])
        ELSE default

\* step 2 of loadMainConfig: allowWriteBack from the preliminary read;
\* content is SanitizeAndParse(file.text)
PreliminaryAllowWriteBack(file, content, readFails) ==
    LET parse == content.parse
        default == defaultMainConfigValues["allow_autoupdate_configs"].b
    IN  IF ~file.exists \/ readFails \/ content.processed = <<>> THEN default
        ELSE IF ~parse.ok \/ parse.v.t = "null" THEN default
        ELSE IF /\ parse.v.t = "obj"
                /\ <<"allow_autoupdate_configs">> \in DOMAIN parse.v.val
                /\ TypeOf(parse.v.val[<<"allow_autoupdate_configs">>]) = "boolean"
        THEN parse.v.val[<<"allow_autoupdate_configs">>].b
        ELSE default

(***************************************************************************)
(* State                                                                   *)
(***************************************************************************)
VARIABLES
    vKind,       \* validator runs: the config kind under validation
    vInput,      \* the merged object handed to the first validation
    vConfig,     \* the object as the last validation left it
    vPrev,       \* the object as it was before the last validation
    vResetKeys,  \* the reset-key list the last validation returned
    vRuns        \* number of validations run on the object so far

VARIABLES
    cModule,     \* feature-module runs: the module under test
    cSettings,   \* the validated main settings the module was built with
    host,        \* the host's data as the last run left it
    hostPrev,    \* the host's data before the last run
    hostFirst,   \* the host's data before the first run
    cRuns        \* number of runs of the module so far

VARIABLES
    disk,           \* loads: the two config files on disk
    parserThrows,   \* whether the host's deserialize throws on a syntax error
    startups,       \* number of server starts (loadMainConfig calls) so far
    weatherPending, \* the weather module is enabled and has not loaded yet
    ensured,        \* what ensureFileExists did to each file at the last start
    lastLoad,       \* the outcome of the last load of each file
    prevLoad        \* the outcome of the loads of the start before

VARIABLES
    tInput,      \* text functions: the input (a text, or a template and data)
    tOp,         \* the function applied to it
    tOut,        \* the text the last application returned
    tPrev,       \* the text the last application was given
    tRuns        \* number of applications so far

VARIABLES
    mConfig,     \* lifecycle: the main settings preSptLoad obtained
    mRoutes,     \* the static routes the weather module registered
    mThrows,     \* the constructor or method of a module that throws
    mPhase,      \* the lifecycle hooks that have returned
    mInstances,  \* the module instances the mod holds
    mApplied,    \* the modules whose changes have been applied
    mAborted     \* a lifecycle hook was left by an exception

VARIABLES
    wConfig,     \* weather routes: the validated weather settings
    wFika,       \* isFikaDetected
    wInitialSet, \* hasInitialSptWeatherBeenSet
    wOverride,   \* baseWeatherConfig.overrideSeason
    wHandled     \* the requests handled so far, oldest first

varsV == <<vKind, vInput, vConfig, vPrev, vResetKeys, vRuns>>
varsC == <<cModule, cSettings, host, hostPrev, hostFirst, cRuns>>
varsL == <<disk, parserThrows, startups, weatherPending, ensured, lastLoad, prevLoad>>
varsT == <<tInput, tOp, tOut, tPrev, tRuns>>
varsM == <<mConfig, mRoutes, mThrows, mPhase, mInstances, mApplied, mAborted>>
VARIABLES
    hHeap,       \* object identity: the objects of the process, by address
    hReturned,   \* the settings objects the loader returned, oldest first
    hWrites      \* number of writes to returned objects so far

varsW == <<wConfig, wFika, wInitialSet, wOverride, wHandled>>
varsH == <<hHeap, hReturned, hWrites>>
vars == <<varsV, varsC, varsL, varsT, varsM, varsW, varsH>>

\* the variable groups a specification does not use stay at these values
IdleV ==
    /\ vKind = "none" /\ vInput = Null /\ vConfig = Null /\ vPrev = Null
    /\ vResetKeys = <<>> /\ vRuns = 0
IdleC ==
    /\ cModule = "none" /\ cSettings = Null /\ host = Null /\ hostPrev = Null
    /\ hostFirst = Null /\ cRuns = 0
IdleL ==
    /\ disk = Null /\ parserThrows = FALSE /\ startups = 0
    /\ weatherPending = FALSE /\ ensured = Null /\ lastLoad = Null
    /\ prevLoad = Null
IdleT ==
    /\ tInput = Null /\ tOp = "none" /\ tOut = <<>> /\ tPrev = <<>> /\ tRuns = 0
IdleM ==
    /\ mConfig = Null /\ mRoutes = {} /\ mThrows = "none" /\ mPhase = "none"
    /\ mInstances = {} /\ mApplied = {} /\ mAborted = FALSE
IdleW ==
    /\ wConfig = Null /\ wFika = FALSE /\ wInitialSet = FALSE
    /\ wOverride = Null /\ wHandled = <<>>
IdleH ==
    /\ hHeap = <<>> /\ hReturned = <<>> /\ hWrites = 0

(***************************************************************************)
(* Bounded inputs                                                          *)
(***************************************************************************)
MaxMix == 2          \* fields of one object that deviate from the defaults
MaxValidations == 2  \* validations run in a row on one object

MainSampleValues ==
    { B(TRUE), B(FALSE), Whole(0), Whole(1), Whole(55), Num(55, 7), Whole(100),
      Whole(150), Whole(999), Whole(1000), Whole(-5), Inf, Str(<<"yes">>), Null }

WeatherSampleValues ==
    { B(TRUE), B(FALSE), Whole(0), Whole(1), Whole(7), Whole(8),
      Whole(-5), Num(0, 5), Inf, Str(<<"yes">>),
      Arr(<<>>), Arr(<<Whole(2), Whole(6)>>),
      Arr(<<Whole(0), Whole(1), Whole(2), Whole(3), Whole(4), Whole(5), Whole(6)>>),
      Arr(<<Whole(6), Whole(5), Whole(4), Whole(3), Whole(2), Whole(1), Whole(0)>>),
      Arr(<<Whole(0), Whole(0), Whole(1), Whole(2), Whole(3), Whole(4), Whole(5), Whole(6)>>),
      Arr(<<Whole(0), Whole(0), Whole(0), Whole(0), Whole(0), Whole(0), Whole(0)>>),
      Arr(<<Whole(7), Whole(0), Whole(1), Whole(2), Str(<<"a">>), Whole(3), Whole(4),
            Num(0, 5), Whole(5), Whole(6), Whole(-1)>>),
      Arr(<<Whole(2), Whole(7), Num(0, 5), Null>>) }

MainProbeKeys ==
    { "disablePMC_ChatResponse", "stacksize_lega", "placeBeaconModifier",
      "allow_autoupdate_configs" }

WeatherProbeKeys ==
    { "use_fixed_season", "fixed_season_index", "exclude_seasons", "Storm" }

ProbeKeys(kind) == IF kind = "main" THEN MainProbeKeys ELSE WeatherProbeKeys
SampleValues(kind) == IF kind = "main" THEN MainSampleValues ELSE WeatherSampleValues

\* the objects that differ from the defaults in at most MaxMix probed fields
MergedInputs(kind) ==
    UNION { { [k \in DOMAIN Defaults(kind) |->
                 IF k \in ks THEN f[k] ELSE Defaults(kind)[k]]
              : f \in [ks -> SampleValues(kind)] }
            : ks \in {s \in SUBSET ProbeKeys(kind) : Cardinality(s) <= MaxMix} }

(***************************************************************************)
(* Validator runs: a merged object is validated in place, repeatedly       *)
(***************************************************************************)
InitV ==
    /\ vKind \in Kinds
    /\ vInput \in MergedInputs(vKind)
    /\ vConfig = vInput
    /\ vPrev = vInput
    /\ vResetKeys = <<>>
    /\ vRuns = 0
    /\ IdleC /\ IdleL /\ IdleT /\ IdleM /\ IdleW /\ IdleH

RunValidate(kind) ==
    /\ vKind = kind
    /\ vRuns < MaxValidations
    /\ LET r == Validate(kind, vConfig) IN
         /\ vConfig' = r.config
         /\ vResetKeys' = r.resetKeys
    /\ vPrev' = vConfig
    /\ vRuns' = vRuns + 1
    /\ UNCHANGED <<vKind, vInput>>
    /\ UNCHANGED <<varsC, varsL, varsT, varsM, varsW, varsH>>

RunValidateMain == RunValidate("main")
RunValidateWeather == RunValidate("weather")

NextV == RunValidateMain \/ RunValidateWeather

SpecV == InitV /\ [][NextV]_vars

(***************************************************************************)
(* Feature-module runs: one module is run repeatedly on the host's data    *)
(* with the same settings                                                  *)
(***************************************************************************)
MaxRuns == 2   \* runs of one module in a row

Modules == {"core", "lostOnDeath", "ammo", "weapon", "plantTime"}

ModuleKeys(module) ==
    CASE module = "core" ->
           { "LootArmbands", "LootMelee", "allow_LegaMoneyCase", "stacksize_lega",
             "removeFirForHideout", "disableSeasonEvents", "disablePMC_ChatResponse" }
      [] module = "lostOnDeath" -> {"SaveArmbandOnDeath", "SaveMeleeOnDeath"}
      [] module = "ammo" ->
           {"weightless_ammo", "weightless_ammoboxes", "weightless_grenades"}
      [] module = "weapon" -> {"weapon_inv_shrink"}
      [] OTHER -> {"leaveItemAtLocationModifier", "placeBeaconModifier"}

\* valid values of a main-config key
ValidValues(key) ==
    CASE key = "stacksize_lega" -> {Whole(1), Whole(50), Whole(999)}
      [] key = "disablePMC_ChatResponse" ->
           {B(FALSE), B(TRUE), Whole(1), Whole(55), Whole(100)}
      [] key \in {"leaveItemAtLocationModifier", "placeBeaconModifier"} ->
           {Whole(0), Num(0, 5), Whole(1), Num(1, 5), Whole(2)}
      [] OTHER -> {B(FALSE), B(TRUE)}

\* validated main settings that vary in the keys the module reads
ModuleSettings(module) ==
    { [k \in DOMAIN defaultMainConfigValues |->
         IF k \in ModuleKeys(module) THEN f[k] ELSE defaultMainConfigValues[k]]
      : f \in { g \in [ModuleKeys(module) -> UNION {ValidValues(k) : k \in ModuleKeys(module)}]
                : \A k \in ModuleKeys(module) : g[k] \in ValidValues(k) } }

WithoutItem(items, id) == [x \in DOMAIN items \ {id} |-> items[x]]

ItemTables ==
    { VanillaItems,
      WithoutItem(VanillaItems, LEGA_MEDAL_ID),
      [VanillaItems EXCEPT ![MONEY_CASE_ID].Filter = Null,
                           ![LEGA_MEDAL_ID].StackMaxSize = 999] }

PlantTimes == {Whole(1), Whole(30), Num(2, 5)}

ModuleHosts(module) ==
    IF module = "plantTime"
    THEN { Host(VanillaItems, t1, t2, has) :
             t1 \in PlantTimes, t2 \in PlantTimes,
             has \in {AllTables, AllTables \ {"quests"}} }
    ELSE { Host(items, Whole(30), Whole(45), has) :
             items \in ItemTables,
             has \in {AllTables, AllTables \ {"items", "lostOnDeath"},
                      AllTables \ {"hideout", "pmcChat", "seasonal"}} }

InitC ==
    /\ cModule \in Modules
    /\ cSettings \in ModuleSettings(cModule)
    /\ host \in ModuleHosts(cModule)
    /\ hostPrev = host
    /\ hostFirst = host
    /\ cRuns = 0
    /\ IdleV /\ IdleL /\ IdleT /\ IdleM /\ IdleW /\ IdleH

Ran(module, result) ==
    /\ cModule = module
    /\ cRuns < MaxRuns
    /\ host' = result
    /\ hostPrev' = host
    /\ cRuns' = cRuns + 1
    /\ UNCHANGED <<cModule, cSettings, hostFirst>>
    /\ UNCHANGED <<varsV, varsL, varsT, varsM, varsW, varsH>>

RunCore == Ran("core", runPostDbLogic(host, cSettings))
RunLostOnDeath == Ran("lostOnDeath", applyLostOnDeathChanges(host, cSettings))
RunAmmo == Ran("ammo", applyAllChanges(host, cSettings))
RunWeapon == Ran("weapon", applyWeaponChanges(host, cSettings))
RunPlantTime == Ran("plantTime", applyPlantTimeChanges(host, cSettings))

NextC == RunCore \/ RunLostOnDeath \/ RunAmmo \/ RunWeapon \/ RunPlantTime

SpecC == InitC /\ [][NextC]_vars

(***************************************************************************)
(* Server starts: the files the user left on disk are ensured and loaded   *)
(***************************************************************************)
MaxStartups == 1   \* server starts in a row on the same files

\* a literal as the user typed it
ListLiteral(words) ==
    <<"[">> \o (IF words = <<>> THEN <<>>
                ELSE <<words[1]>> \o SubSeq([i \in 1..(2 * Len(words)) |->
                                               IF i % 2 = 1 THEN "," ELSE words[i \div 2]],
                                            3, 2 * Len(words)))
    \o <<"]">>

\* the template text with the literals of some keys replaced (set), the
\* lines of some keys removed (drop) and further lines inserted (extra)
UserText(kind, set, drop, extra) ==
    ConfigText(kind,
               [k \in DOMAIN Defaults(kind) \ drop |->
                  IF k \in DOMAIN set THEN set[k] ELSE TemplateLiteral(kind, k)],
               extra)

FooLine == <<" ", "\"", "foo", "\"", ":", " ", "1", ",", "\n">>

\* texts that are not in the layout of the template
OtherTexts ==
    { <<>>, <<" ", "\n", " ">>, <<"/", "/", " ", "nothing", "\n">>,
      <<"null">>, <<"0">>, <<"true">>, <<"\"", "x", "\"">>, <<"[", "1", "]">>,
      <<"{", "}">>, <<"{", " ", "\"", "stacksize_lega", "\"", ":", " ", "50">>,
      <<"{", "stacksize_lega", ":", "50", "}">>,
      <<"/", "*", " ", "mine", "\n", "*", "/", "{", "\"", "allow_autoupdate_configs",
        "\"", ":", "true", ",", " ", "/", "/", " ", "on", "\n", "}">> }

MainProbeLiterals ==
    { <<"true">>, <<"0">>, <<"1">>, <<"55.7">>, <<"150">>, <<"999">>, <<"1000">>,
      <<"-5">>, <<"0.5">>, <<"1e999">>, <<"null">>, <<"\"", "yes", "\"">>, <<"yes">>,
      ListLiteral(<<>>) }

WeatherProbeLiterals ==
    { <<"true">>, <<"0">>, <<"1">>, <<"7">>, <<"8">>, <<"-5">>, <<"0.5">>,
      <<"1e999">>, <<"\"", "yes", "\"">>, <<"{", "}">>,
      ListLiteral(<<"2", "6">>),
      ListLiteral(<<"0", "1", "2", "3", "4", "5", "6">>),
      ListLiteral(<<"6", "0", "0", "0", "0", "0", "0">>),
      ListLiteral(<<"0", "0", "0", "0", "0", "0", "0">>),
      ListLiteral(<<"7", "0", "1", "2", "null", "3", "4", "0.5", "5", "6">>) }

\* one edit of a template text: a literal replaced, a line removed, or both
\* with the unknown key foo added
Edits(kind) ==
    { [set |-> (key :> literal), drop |-> {}, extra |-> <<>>] :
        key \in ProbeKeys(kind),
        literal \in IF kind = "main" THEN MainProbeLiterals ELSE WeatherProbeLiterals }
    \cup { [set |-> (key :> IF kind = "main" THEN <<"150">> ELSE <<"\"", "yes", "\"">>),
            drop |-> {}, extra |-> <<>>] : key \in DOMAIN Defaults(kind) }
    \cup { [set |-> <<>>, drop |-> {key}, extra |-> extra] :
             key \in {"stacksize_lega", "enableDebugLogs", "Storm", "exclude_seasons"}
                     \cap DOMAIN Defaults(kind),
             extra \in {<<>>, FooLine} }
    \cup { [set |-> <<>>, drop |-> {}, extra |-> extra] : extra \in {<<>>, FooLine} }

\* the main config texts: an edit, with auto-update off or on
MainTexts ==
    { UserText("main", e.set @@ flags, e.drop, e.extra) :
        e \in Edits("main"),
        flags \in {<<>>, ("allow_autoupdate_configs" :> <<"true">>)} }
    \cup OtherTexts

\* the main config texts that enable the weather module
WeatherOnTexts ==
    { UserText("main", ("use_weather_module" :> <<"true">>) @@ flags, {}, <<>>) :
        flags \in {<<>>, ("allow_autoupdate_configs" :> <<"true">>)} }

WeatherTexts ==
    { UserText("weather", e.set, e.drop, e.extra) : e \in Edits("weather") }
    \cup OtherTexts

\* a fresh install, a main file of the user, or a weather file of the user
\* next to a main file that enables the weather module
Disks ==
    { [main |-> NoFile, weather |-> NoFile] }
    \cup { [main |-> File(TRUE, m), weather |-> NoFile] : m \in MainTexts \cup WeatherOnTexts }
    \cup { [main |-> File(TRUE, m), weather |-> File(TRUE, w)] :
             m \in WeatherOnTexts, w \in WeatherTexts }

NotLoaded == [done |-> FALSE]
Loaded(before, allowWriteBack, outcome) ==
    [ done |-> TRUE, before |-> before, allow |-> allowWriteBack,
      path |-> outcome.path, readAttempted |-> outcome.readAttempted,
      loaded |-> outcome.loaded, merged |-> outcome.merged, settings |-> outcome.settings,
      resetKeys |-> outcome.resetKeys, needsRewrite |-> outcome.needsRewrite,
      rebuilt |-> outcome.rebuilt, after |-> outcome.file ]

\* nothing loaded yet
BeforeFirstStart ==
    /\ parserThrows \in BOOLEAN
    /\ startups = 0
    /\ weatherPending = FALSE
    /\ ensured = [main |-> "none", weather |-> "none"]
    /\ lastLoad = [main |-> NotLoaded, weather |-> NotLoaded]
    /\ prevLoad = [main |-> NotLoaded, weather |-> NotLoaded]
    /\ IdleV /\ IdleC /\ IdleT /\ IdleM /\ IdleW /\ IdleH

Init ==
    /\ disk \in Disks
    /\ BeforeFirstStart

\* the faults the host can raise on a file: none where nothing is tried
ReadFaults(file) == IF file.exists THEN BOOLEAN ELSE {FALSE}
CreateFaults(file) == IF file.exists THEN {FALSE} ELSE BOOLEAN
WriteBackFaults(allowWriteBack) == IF allowWriteBack THEN BOOLEAN ELSE {FALSE}

\* loadMainConfig, called by preSptLoad
loadMainConfig ==
    /\ \E createMainFails \in CreateFaults(disk.main),
          createWeatherFails \in CreateFaults(disk.weather) :
       \E main \in {ensureFileExists(disk.main, DEFAULT_MAIN_CONFIG_JSONC,
                                     createMainFails)},
          weather \in {ensureFileExists(disk.weather, DEFAULT_WEATHER_CONFIG_JSONC,
                                        createWeatherFails)} :
       \E content \in {SanitizeAndParse(main.file.text)} :
       \E preliminaryReadFails \in ReadFaults(main.file),
          readFails \in ReadFaults(main.file) :
       \E allowWriteBack \in {PreliminaryAllowWriteBack(main.file, content,
                                                        preliminaryReadFails)} :
       \E rebuildFails \in WriteBackFaults(allowWriteBack),
          writeFails \in WriteBackFaults(allowWriteBack) :
       \E config \in {loadAndValidateConfigFile(
                          "main", main.file, content, allowWriteBack,
                          parserThrows, readFails, rebuildFails, writeFails)} :
          /\ disk' = [main |-> config.file, weather |-> weather.file]
          /\ ensured' = [main |-> main.outcome, weather |-> weather.outcome]
          /\ lastLoad' = [main |-> ("preliminaryReadFailed" :> preliminaryReadFails)
                                       @@ Loaded(main.file, allowWriteBack, config),
                          weather |-> NotLoaded]
          /\ weatherPending' = (config.settings["use_weather_module"] = B(TRUE))
    /\ prevLoad' = lastLoad
    /\ startups' = startups + 1
    /\ UNCHANGED <<parserThrows, varsV, varsC, varsT, varsM, varsW, varsH>>

LoadMainConfig == startups < MaxStartups /\ loadMainConfig

\* loadWeatherConfig, called by the weather module's runPreSptLogic with the
\* auto-update flag of the main settings
LoadWeatherConfig ==
    /\ weatherPending
    /\ \E allowWriteBack \in {lastLoad.main.settings["allow_autoupdate_configs"].b},
          content \in {SanitizeAndParse(disk.weather.text)} :
       \E readFails \in ReadFaults(disk.weather),
          rebuildFails \in WriteBackFaults(allowWriteBack),
          writeFails \in WriteBackFaults(allowWriteBack) :
       \E config \in {loadAndValidateConfigFile(
                          "weather", disk.weather, content, allowWriteBack,
                          parserThrows, readFails, rebuildFails, writeFails)} :
          /\ disk' = [disk EXCEPT !.weather = config.file]
          /\ lastLoad' = [lastLoad EXCEPT
                            !.weather = Loaded(disk.weather, allowWriteBack, config)]
    /\ weatherPending' = FALSE
    /\ UNCHANGED <<parserThrows, startups, ensured, prevLoad>>
    /\ UNCHANGED <<varsV, varsC, varsT, varsM, varsW, varsH>>

Next == LoadMainConfig \/ LoadWeatherConfig

Spec == Init /\ [][Next]_vars

(***************************************************************************)
(* Restarts: the server is started again on the files the start before     *)
(* left, with auto-update on                                               *)
(***************************************************************************)
MaxRestarts == 2   \* server starts in a row on the same files

AutoUpdateOn ==
    ("allow_autoupdate_configs" :> <<"true">>) @@ ("use_weather_module" :> <<"true">>)

\* main files of a user who asked for auto-update and for the weather
\* module: in order, with a value out of range, without the line of a key,
\* with a key of their own, with two values to reset
RestartMainTexts ==
    { UserText("main", AutoUpdateOn, {}, <<>>),
      UserText("main", ("stacksize_lega" :> <<"1000">>) @@ AutoUpdateOn, {}, <<>>),
      UserText("main", ("placeBeaconModifier" :> <<"0.5">>) @@ AutoUpdateOn,
               {"stacksize_lega"}, <<>>),
      UserText("main", ("disablePMC_ChatResponse" :> <<"55.7">>) @@ AutoUpdateOn,
               {}, FooLine),
      UserText("main", ("LootMelee" :> <<"1">>) @@ ("stacksize_lega" :> <<"0">>)
                       @@ AutoUpdateOn, {"enableDebugLogs"}, <<>>) }

\* weather files of that user: exclusion lists of every kind next to a
\* key to add, a key to drop or a value to reset
RestartWeatherTexts ==
    { UserText("weather", ("exclude_seasons" :> list) @@ other.set, other.drop, other.extra) :
        list \in { ListLiteral(<<>>), ListLiteral(<<"2", "6">>),
                   ListLiteral(<<"0", "1", "2", "3", "4", "5", "6">>),
                   ListLiteral(<<"0", "0", "0", "0", "0", "0", "0">>),
                   ListLiteral(<<"7", "0", "1", "2", "null", "3", "4", "0.5", "5", "6">>) },
        other \in { [set |-> <<>>, drop |-> {}, extra |-> <<>>],
                    [set |-> <<>>, drop |-> {"Storm"}, extra |-> <<>>],
                    [set |-> <<>>, drop |-> {}, extra |-> FooLine],
                    [set |-> ("fixed_season_index" :> <<"8">>), drop |-> {}, extra |-> <<>>],
                    [set |-> ("Summer" :> <<"0.5">>), drop |-> {"Winter"}, extra |-> FooLine] } }

RestartDisks ==
    { [main |-> File(TRUE, m), weather |-> NoFile] : m \in RestartMainTexts }
    \cup { [main |-> File(TRUE, UserText("main", AutoUpdateOn, {}, <<>>)),
            weather |-> File(TRUE, w)] : w \in RestartWeatherTexts }

InitR ==
    /\ disk \in RestartDisks
    /\ BeforeFirstStart

StartServer == startups < MaxRestarts /\ loadMainConfig

NextR == StartServer \/ LoadWeatherConfig

SpecR == InitR /\ [][NextR]_vars

(***************************************************************************)
(* The text functions on their own: stripJsonComments and                  *)
(* fixTrailingCommas applied once or repeatedly, both in a row as the      *)
(* loader applies them, and rebuildConfigStringWithComments on a template  *)
(***************************************************************************)
MaxPasses == 2   \* applications of one function in a row

Quoted(content) == <<"\"">> \o content \o <<"\"">>

\* the content of a string value
StringContents ==
    { <<"a">>, <<"http", ":", "/", "/", "x">>, <<"a", "/", "/", "b">>,
      <<"a", " ", "/", "/", " ", "b">> }

\* what stands between the colon and the value
BeforeValue ==
    { <<>>, <<" ">>, <<" ", "/", "*", " ", "c", "\n", " ", "c", " ", "*", "/", " ">>,
      <<"/", "/", " ", "c", "\n", " ">> }

\* what stands between the value and the closing brace
AfterValue ==
    { <<>>, <<",", "\n">>, <<" ", "/", "/", " ", "c", "\n">>,
      <<"/", "/", " ", "c", "\n">>, <<",", " ", "/", "/", " ", "c", "\n">>,
      <<" ", "/", "*", "c", "*", "/", ",", " ">> }

ObjectOpen == <<"{", "\"", "k", "\"", ":">>

\* a JSONC object with one string member, comments around the value and at
\* most one trailing comma; value is what the same object without comments
\* and trailing comma parses to
JsoncDocument(content, before, after) ==
    [ class |-> "text",
      text |-> ObjectOpen \o before \o Quoted(content) \o after \o <<"}">>,
      strings |-> {<<"k">>, content},
      wellFormed |-> TRUE,
      value |-> JsonParse(ObjectOpen \o Quoted(content) \o <<"}">>).v ]

\* texts that are no JSONC: comment openers that only appear once a block
\* comment is gone, runs of commas before a closer
LooseTexts ==
    { <<"/", "/", "*", " ", "c", " ", "*", "/", "*", " ", "x", " ", "*", "/">>,
      <<"1", " ", "/", "/", "*", "c", "*", "/", "/", " ", "x", "\n", "2">>,
      <<"[", "1", ",", ",", "]">>, <<"[", "1", ",", " ", ",", "\n", "]">>,
      <<"[", "1", ",", "]">>, <<"{", "}">>, <<>>, <<" ", "\n">> }

Texts ==
    { JsoncDocument(content, before, after) :
        content \in StringContents, before \in BeforeValue, after \in AfterValue }
    \cup { [ class |-> "text", text |-> t, strings |-> {}, wellFormed |-> FALSE,
             value |-> Null ] : t \in LooseTexts }

\* validated settings that differ from the defaults in one field
RebuildSettings(kind) ==
    {Defaults(kind)}
    \cup (IF kind = "main"
          THEN { [defaultMainConfigValues EXCEPT !["stacksize_lega"] = Whole(999)],
                 [defaultMainConfigValues EXCEPT !["disablePMC_ChatResponse"] = Whole(55)],
                 [defaultMainConfigValues EXCEPT !["placeBeaconModifier"] = Num(1, 5)],
                 [defaultMainConfigValues EXCEPT !["enableDebugLogs"] = B(TRUE)] }
          ELSE { [defaultWeatherConfigValues EXCEPT !["Storm"] = Whole(0)],
                 [defaultWeatherConfigValues EXCEPT !["fixed_season_index"] = Whole(7)],
                 [defaultWeatherConfigValues EXCEPT
                    !["exclude_seasons"] = Arr(<<Whole(2), Whole(6)>>)] })

\* the keys whose line an older template lacks
DroppedKeys(kind) ==
    IF kind = "main"
    THEN { {}, {"stacksize_lega"}, {"use_weather_module", "enableDebugLogs"} }
    ELSE { {}, {"Storm"}, {"use_fixed_season", "exclude_seasons"} }

\* a template (the bundled one, or one without the lines of some keys and
\* with a line of its own) and the settings to write into it
Rebuilds ==
    { [ class |-> "rebuild", kind |-> kind, drop |-> drop, extra |-> extra,
        text |-> UserText(kind, <<>>, drop, extra), data |-> data ] :
        kind \in Kinds,
        drop \in DroppedKeys("main") \cup DroppedKeys("weather"),
        extra \in {<<>>, FooLine},
        data \in RebuildSettings("main") \cup RebuildSettings("weather") }

InitT ==
    /\ tInput \in Texts \cup { r \in Rebuilds : /\ r.drop \in DroppedKeys(r.kind)
                                               /\ r.data \in RebuildSettings(r.kind) }
    /\ tOp = "none"
    /\ tOut = <<>>
    /\ tPrev = <<>>
    /\ tRuns = 0
    /\ IdleV /\ IdleC /\ IdleL /\ IdleM /\ IdleW /\ IdleH

\* one more application of a text function to what the last one returned
Pass(op, given, result) ==
    /\ tInput.class = "text"
    /\ tOp \in {"none", op}
    /\ tRuns < MaxPasses
    /\ tPrev' = given
    /\ tOut' = result
    /\ tOp' = op
    /\ tRuns' = tRuns + 1
    /\ UNCHANGED <<tInput, varsV, varsC, varsL, varsM, varsW, varsH>>

StripComments ==
    \E given \in {IF tRuns = 0 THEN tInput.text ELSE tOut} :
        Pass("strip", given, stripJsonComments(given))

FixCommasPass ==
    \E given \in {IF tRuns = 0 THEN tInput.text ELSE tOut} :
        Pass("fix", given, fixTrailingCommas(given))

\* the two in a row, as loadAndValidateConfigFile applies them
Sanitize ==
    /\ tOp = "none"
    /\ Pass("sanitize", tInput.text,
            fixTrailingCommas(stripJsonComments(tInput.text)))

Rebuild ==
    /\ tInput.class = "rebuild"
    /\ tOp = "none"
    /\ tOut' = rebuildConfigStringWithComments(tInput.text, tInput.data,
                                               KeysOf(tInput.kind))
    /\ tPrev' = tInput.text
    /\ tOp' = "rebuild"
    /\ tRuns' = 1
    /\ UNCHANGED <<tInput, varsV, varsC, varsL, varsM, varsW, varsH>>

NextT == StripComments \/ FixCommasPass \/ Sanitize \/ Rebuild

SpecT == InitT /\ [][NextT]_vars

(***************************************************************************)
(* The weather module at run time: the handlers of /client/weather and of  *)
(* /fika/raid/create, as registerRoutes installs them, and the choice of   *)
(* the season.  Math.random is a nondeterministic choice.                  *)
(***************************************************************************)
MaxRequests == 3   \* requests the server handles

seasonsArray ==
    <<"Summer", "Autumn", "Winter", "Spring", "Late Autumn", "Early Spring", "Storm">>
ALL_SEASON_INDICES == <<0, 1, 2, 3, 4, 5, 6>>
STORM_INDEX == 6

\* the indices a random choice may take from the list; 0 for an empty list
getRandomSeasonIndexFromList(indices) ==
    IF indices = <<>> THEN {0} ELSE SeqToSet(indices)

\* the available seasons computed without looking at exclude_seasons
getAvailableSeasonIndices_NoExclusions(moduleConfig) ==
    IF moduleConfig = Null THEN <<0>> ELSE ALL_SEASON_INDICES

getAvailableSeasonIndices(moduleConfig) ==
    IF moduleConfig = Null THEN <<0>>
    ELSE LET excluded == SeqToSet(moduleConfig["exclude_seasons"].a)
             Without(out) ==
                SelectSeq2(ALL_SEASON_INDICES,
                           [i \in 1..Len(ALL_SEASON_INDICES) |-> ~out[ALL_SEASON_INDICES[i]]])
             available == Without([i \in 0..6 |-> Whole(i) \in excluded])
             nonStorm == Without([i \in 0..6 |-> i = STORM_INDEX])
         IN  IF available # <<>> THEN available
             ELSE IF nonStorm # <<>> THEN nonStorm
             ELSE <<0>>

\* the indices the weighted choice may return
getWeightedRandomSeasonIndex(moduleConfig, availableIndices) ==
    LET weight(index) ==
            IF seasonsArray[index + 1] \in DOMAIN moduleConfig
            THEN moduleConfig[seasonsArray[index + 1]] ELSE Undefined
        weights ==
            { index \in SeqToSet(availableIndices) :
                weight(index).t = "num" /\ NumGreater(weight(index), 0) }
    IN  IF weights = {} THEN getRandomSeasonIndexFromList(availableIndices)
        ELSE weights

\* what one determination selected, by which method, and what it left in
\* baseWeatherConfig.overrideSeason
Determined(selectedIndex, selectionMethod, finalFallback) ==
    [ selectedIndex |-> selectedIndex, selectionMethod |-> selectionMethod,
      finalFallback |-> finalFallback, overrideSeason |-> selectedIndex ]

\* a determination that resets the override and never sets it again
determineAndSetSeason_NoFinalSet(moduleConfig) ==
    { [ selectedIndex |-> Whole(0), selectionMethod |-> "Unknown",
        finalFallback |-> FALSE, overrideSeason |-> Null ] }

\* a determination that tests use_weight_system before use_fixed_season
determineAndSetSeason_WeightedFirst(moduleConfig) ==
    LET availableIndices == getAvailableSeasonIndices(moduleConfig) IN
    IF Truthy(moduleConfig["use_weight_system"])
    THEN { Determined(Whole(index), "Weighted Random", FALSE) :
             index \in getWeightedRandomSeasonIndex(moduleConfig, availableIndices) }
    ELSE IF Truthy(moduleConfig["use_fixed_season"])
    THEN { Determined(Whole(moduleConfig["fixed_season_index"].i - 1), "Fixed", FALSE) }
    ELSE IF moduleConfig["random_system_mode"] = Whole(0)
    THEN { Determined(Whole(index), "Auto Random (All)", FALSE) :
             index \in getRandomSeasonIndexFromList(ALL_SEASON_INDICES) }
    ELSE { Determined(Whole(index), "Auto Random (Available)", FALSE) :
             index \in getRandomSeasonIndexFromList(availableIndices) }

\* the outcomes of determineAndSetSeason, one for every value Math.random
\* may take
determineAndSetSeason(moduleConfig) ==
    LET availableIndices == getAvailableSeasonIndices(moduleConfig)
        targetIndex == moduleConfig["fixed_season_index"].i - 1
        selections ==
            IF Truthy(moduleConfig["use_fixed_season"])
            THEN IF targetIndex >= 0 /\ targetIndex < Len(seasonsArray)
                 THEN {<<targetIndex, "Fixed">>}
                 ELSE {<<0, "Fixed (Invalid Fallback)">>}
            ELSE IF Truthy(moduleConfig["use_weight_system"])
            THEN { <<index, "Weighted Random">> :
                     index \in getWeightedRandomSeasonIndex(moduleConfig, availableIndices) }
            ELSE IF moduleConfig["random_system_mode"] = Whole(0)
            THEN { <<index, "Auto Random (All)">> :
                     index \in getRandomSeasonIndexFromList(ALL_SEASON_INDICES) }
            ELSE { <<index, "Auto Random (Available)">> :
                     index \in getRandomSeasonIndexFromList(availableIndices) }
        finalPool(selectionMethod) ==
            IF selectionMethod \in {"Fixed", "Fixed (Invalid Fallback)", "Auto Random (All)"}
            THEN SeqToSet(ALL_SEASON_INDICES)
            ELSE SeqToSet(availableIndices)
    IN  IF availableIndices = <<>>
        THEN { Determined(Whole(0), "Error Fallback (No Available)", FALSE) }
        ELSE { IF selection[1] \in finalPool(selection[2])
               THEN Determined(Whole(selection[1]), selection[2], FALSE)
               ELSE Determined(Whole(availableIndices[1]), selection[2], TRUE) :
                 selection \in selections }

\* validated weather settings, one for every way of choosing
WeatherModuleConfigs ==
    { defaultWeatherConfigValues,
      [defaultWeatherConfigValues EXCEPT
         !["random_system_mode"] = Whole(1),
         !["exclude_seasons"] = Arr(<<Whole(0), Whole(1), Whole(2), Whole(6)>>)],
      validateWeatherConfig(
         [defaultWeatherConfigValues EXCEPT
            !["random_system_mode"] = Whole(1),
            !["exclude_seasons"] = Arr([i \in 1..7 |-> Whole(i - 1)])]).config,
      validateWeatherConfig(
         [defaultWeatherConfigValues EXCEPT
            !["use_weight_system"] = B(TRUE),
            !["exclude_seasons"] = Arr([i \in 1..7 |-> Whole(0)])]).config,
      [defaultWeatherConfigValues EXCEPT
         !["use_fixed_season"] = B(TRUE), !["fixed_season_index"] = Whole(7)],
      [defaultWeatherConfigValues EXCEPT
         !["use_weight_system"] = B(TRUE), !["Summer"] = Whole(0),
         !["exclude_seasons"] = Arr(<<Whole(6)>>)],
      [defaultWeatherConfigValues EXCEPT
         !["use_weight_system"] = B(TRUE), !["Summer"] = Whole(0),
         !["Autumn"] = Whole(0), !["Winter"] = Whole(0), !["Spring"] = Whole(0),
         !["exclude_seasons"] = Arr(<<Whole(4), Whole(5), Whole(6)>>)] }

\* the state after runPreSptLogic has registered the routes
InitW ==
    /\ wConfig \in WeatherModuleConfigs
    /\ wFika \in BOOLEAN
    /\ wInitialSet = FALSE
    /\ wOverride = Null
    /\ wHandled = <<>>
    /\ IdleV /\ IdleC /\ IdleL /\ IdleT /\ IdleM /\ IdleH

\* the request has been answered: whether it determined the season, and
\* the override and the flag it found and left
Handled(route, determined, selectionMethod, overrideSeason, initialSet) ==
    /\ wOverride' = overrideSeason
    /\ wInitialSet' = initialSet
    /\ wHandled' = Append(wHandled,
                          [ route |-> route, determined |-> determined,
                            selectionMethod |-> selectionMethod,
                            before |-> wOverride, after |-> overrideSeason,
                            initialSetBefore |-> wInitialSet ])
    /\ UNCHANGED <<wConfig, wFika, varsV, varsC, varsL, varsT, varsM, varsH>>

ClientWeather ==
    /\ Len(wHandled) < MaxRequests
    /\ IF wFika /\ wInitialSet
       THEN Handled("/client/weather", FALSE, "Unknown", wOverride, wInitialSet)
       ELSE \E result \in determineAndSetSeason(wConfig) :
               Handled("/client/weather", TRUE, result.selectionMethod,
                       result.overrideSeason, IF wFika THEN TRUE ELSE wInitialSet)

FikaRaidCreate ==
    /\ Len(wHandled) < MaxRequests
    /\ wFika
    /\ \E result \in determineAndSetSeason(wConfig) :
          Handled("/fika/raid/create", TRUE, result.selectionMethod,
                  result.overrideSeason, TRUE)

NextW == ClientWeather \/ FikaRaidCreate

SpecW == InitW /\ [][NextW]_vars

(***************************************************************************)
(* The lifecycle of the mod: preSptLoad constructs the modules, postDBLoad *)
(* and postSptLoad run them.  One unit of the installation may be broken:  *)
(* its constructor or its method throws, or the host hands out no          *)
(* DatabaseServer or ConfigServer                                          *)
(***************************************************************************)
ModuleNames == {"Core", "Weather", "PlantTime", "Ammo", "LostOnDeath", "Weapon"}

\* the order of the initialize* calls of preSptLoad
InitializeOrder == <<"Core", "Weather", "PlantTime", "Ammo", "LostOnDeath", "Weapon">>

\* the order of the apply* calls of postDBLoad
ApplyOrder == <<"Core", "PlantTime", "Ammo", "LostOnDeath", "Weapon">>

\* the flag an initialize* helper tests (Core and LostOnDeath test none)
ModuleFlag ==
    [ Weather |-> "use_weather_module", PlantTime |-> "use_plant_time_module",
      Ammo |-> "use_ammo_module", Weapon |-> "use_weapon_module" ]

ModuleEnabled(config, unit) ==
    unit \in DOMAIN ModuleFlag => Truthy(config[ModuleFlag[unit]])

NoFault == [at |-> "none", unit |-> "none"]

\* where the installation is broken: "constructor" and "apply" in a module,
\* "preSpt" in WeatherModule.runPreSptLogic, "resolve" in the container
\* (the logger or JsonUtil in preSptLoad, DatabaseServer or ConfigServer in
\* postDBLoad)
ModuleFaults ==
    {NoFault}
    \cup { [at |-> at, unit |-> unit] : at \in {"constructor", "apply"}, unit \in ModuleNames }
    \cup { [at |-> "preSpt", unit |-> "Weather"], [at |-> "resolve", unit |-> "host"],
           [at |-> "resolve", unit |-> "logger"] }

\* settings in which every tweak of the four optional modules would change
\* the host's data
ActiveTweaks ==
    [defaultMainConfigValues EXCEPT
       !["weightless_ammo"] = B(TRUE), !["weightless_grenades"] = B(TRUE),
       !["weapon_inv_shrink"] = B(TRUE),
       !["leaveItemAtLocationModifier"] = Num(0, 5),
       !["placeBeaconModifier"] = Whole(2)]

\* the main configurations loadMainConfig may return: every combination of
\* the four module switches, with the default tweaks and with active ones
LoadedConfigs ==
    { [k \in DOMAIN defaultMainConfigValues |->
         IF k \in on THEN B(TRUE)
         ELSE IF k \in {ModuleFlag[u] : u \in DOMAIN ModuleFlag} THEN B(FALSE)
         ELSE tweaks[k]] :
        on \in SUBSET {ModuleFlag[u] : u \in DOMAIN ModuleFlag},
        tweaks \in {defaultMainConfigValues, ActiveTweaks} }

\* the mod object and what it works on: the module instances it holds, the
\* modules whose changes ran to their end, the host's data, the routes
\* registered, and whether an exception is on its way out of the hook
ModObject(instances, applied, data, routes, aborted) ==
    [ instances |-> instances, applied |-> applied, host |-> data,
      routes |-> routes, aborted |-> aborted ]

\* try { ... } catch (error) { log }: atThrow is the object when the
\* exception was thrown, done the object when the block ran to its end
TryCatch_Rethrow(atThrow, throws, done) ==
    IF throws THEN [atThrow EXCEPT !.aborted = TRUE] ELSE done

TryCatch(atThrow, throws, done) ==
    IF throws THEN atThrow ELSE done

\* WeatherModule.runPreSptLogic: without the base weather config no route
\* is registered, with FIKA the raid creation hook is registered too
registerRoutes(baseWeatherConfig, isFikaDetected) ==
    IF ~baseWeatherConfig THEN {}
    ELSE {"/client/weather"} \cup (IF isFikaDetected THEN {"/fika/raid/create"} ELSE {})

\* initialize* helpers that construct the module whatever its switch says
initializeModule_IgnoreFlag(mod, config, fault, unit, routes) ==
    IF mod.aborted \/ config = Null THEN mod
    ELSE [mod EXCEPT !.instances = @ \cup {unit},
                     !.routes = IF unit = "Weather" THEN routes ELSE @]

\* initializeCoreModule .. initializeWeaponModule; routes are the routes
\* runPreSptLogic of the weather module would register
initializeModule(mod, config, fault, unit, routes) ==
    IF mod.aborted \/ config = Null \/ ~ModuleEnabled(config, unit) THEN mod
    ELSE LET constructed == [mod EXCEPT !.instances = @ \cup {unit}]
         IN  IF fault = [at |-> "constructor", unit |-> unit]
             THEN TryCatch(mod, TRUE, constructed)
             ELSE IF unit = "Weather"
             THEN TryCatch(constructed, fault = [at |-> "preSpt", unit |-> unit],
                           [constructed EXCEPT !.routes = routes])
             ELSE TryCatch(constructed, FALSE, constructed)

\* what the method of the module that postDBLoad or postSptLoad calls does
\* to the host's data (runPostSptLogic of the weather module is empty)
ModuleChanges(data, config, unit) ==
    CASE unit = "Core" -> runPostDbLogic(data, config)
      [] unit = "PlantTime" -> applyPlantTimeChanges(data, config)
      [] unit = "Ammo" -> applyAllChanges(data, config)
      [] unit = "LostOnDeath" -> applyLostOnDeathChanges(data, config)
      [] unit = "Weapon" -> applyWeaponChanges(data, config)
      [] OTHER -> data

\* applyCoreModuleChanges .. applyWeaponModuleChanges, runWeatherModulePostLoad;
\* a method that throws does so before it changes anything
applyModuleChanges(mod, config, fault, unit) ==
    IF mod.aborted \/ unit \notin mod.instances THEN mod
    ELSE TryCatch(mod, fault = [at |-> "apply", unit |-> unit],
                  [mod EXCEPT !.applied = @ \cup {unit},
                              !.host = ModuleChanges(@, config, unit)])

RECURSIVE InitializeAll(_, _, _, _, _)
InitializeAll(mod, config, fault, routes, i) ==
    IF i > Len(InitializeOrder) THEN mod
    ELSE InitializeAll(initializeModule(mod, config, fault, InitializeOrder[i], routes),
                       config, fault, routes, i + 1)

RECURSIVE ApplyAll(_, _, _, _)
ApplyAll(mod, config, fault, i) ==
    IF i > Len(ApplyOrder) THEN mod
    ELSE ApplyAll(applyModuleChanges(mod, config, fault, ApplyOrder[i]),
                  config, fault, i + 1)

\* config is what loadMainConfig returns once logger and JsonUtil are there
preSptLoad(mod, config, fault, routes) ==
    IF config = Null THEN mod ELSE InitializeAll(mod, config, fault, routes, 1)

\* a postDBLoad that runs the core module on the default settings when no
\* settings have been loaded
postDBLoad_DefaultsWhenUnloaded(mod, config, fault) ==
    IF fault.at = "resolve" /\ fault.unit = "host" THEN mod
    ELSE IF config = Null
    THEN [mod EXCEPT !.host = runPostDbLogic(@, defaultMainConfigValues)]
    ELSE ApplyAll(mod, config, fault, 1)

postDBLoad(mod, config, fault) ==
    IF config = Null \/ (fault.at = "resolve" /\ fault.unit = "host") THEN mod
    ELSE ApplyAll(mod, config, fault, 1)

postSptLoad(mod, config, fault) ==
    IF config = Null THEN mod ELSE applyModuleChanges(mod, config, fault, "Weather")

\* the host's data when the server loads the mod
LifecycleHosts == { Host(VanillaItems, Whole(30), Whole(45), AllTables) }

InitM ==
    /\ mConfig = Null
    /\ mRoutes = {}
    /\ mThrows \in ModuleFaults
    /\ mPhase = "constructed"
    /\ mInstances = {}
    /\ mApplied = {}
    /\ mAborted = FALSE
    /\ host \in LifecycleHosts
    /\ hostFirst = host
    /\ hostPrev = host
    /\ cModule = "none" /\ cSettings = Null /\ cRuns = 0
    /\ IdleV /\ IdleL /\ IdleT /\ IdleW /\ IdleH

\* the hook has run and left the mod object in the state after
Hook(phase, after) ==
    /\ mPhase' = phase
    /\ mInstances' = after.instances
    /\ mApplied' = after.applied
    /\ mAborted' = after.aborted
    /\ mRoutes' = after.routes
    /\ host' = after.host
    /\ hostPrev' = host
    /\ UNCHANGED <<mThrows, cModule, cSettings, hostFirst, cRuns>>
    /\ UNCHANGED <<varsV, varsL, varsT, varsW, varsH>>

ThisMod == ModObject(mInstances, mApplied, host, mRoutes, mAborted)

PreSptLoad ==
    /\ mPhase = "constructed"
    /\ \E config \in (IF mThrows = [at |-> "resolve", unit |-> "logger"]
                      THEN {Null} ELSE LoadedConfigs),
          baseWeatherConfig \in BOOLEAN, isFikaDetected \in BOOLEAN :
          /\ mConfig' = config
          /\ Hook("preSptLoad",
                  preSptLoad(ThisMod, config, mThrows,
                             registerRoutes(baseWeatherConfig, isFikaDetected)))

\* the host calls the hooks in their order; a hook called although
\* preSptLoad has not run finds no logger and no settings
PostDBLoad ==
    /\ mPhase \in {"constructed", "preSptLoad"}
    /\ ~mAborted
    /\ UNCHANGED mConfig
    /\ Hook("postDBLoad", postDBLoad(ThisMod, mConfig, mThrows))

PostSptLoad ==
    /\ mPhase \in {"constructed", "postDBLoad"}
    /\ ~mAborted
    /\ UNCHANGED mConfig
    /\ Hook("postSptLoad", postSptLoad(ThisMod, mConfig, mThrows))

\* a client asks for the weather: the route, if registered, sets the
\* season override (the weather settings are the defaults)
ClientWeatherRequest ==
    /\ mPhase = "postSptLoad"
    /\ "/client/weather" \in mRoutes
    /\ wOverride = Null
    /\ \E result \in determineAndSetSeason(defaultWeatherConfigValues) :
          wOverride' = result.overrideSeason
    /\ UNCHANGED <<wConfig, wFika, wInitialSet, wHandled>>
    /\ UNCHANGED <<varsV, varsC, varsL, varsT, varsM, varsH>>

NextM == PreSptLoad \/ PostDBLoad \/ PostSptLoad \/ ClientWeatherRequest

SpecM == InitM /\ [][NextM]_vars

(***************************************************************************)
(* The choice of the season on its own: determineAndSetSeason applied once *)
(* to the settings validateWeatherConfig returns                           *)
(***************************************************************************)
\* exclusion lists as written in the file: none, some, all seven, seven
\* times the same, all but one, with an entry out of range
ExcludeLists ==
    { <<>>, <<6>>, <<0, 1, 2>>, <<4, 5>>, <<0, 1, 2, 3, 4, 5, 6>>,
      <<0, 0, 0, 0, 0, 0, 0>>, <<0, 1, 2, 3, 5, 6>>, <<7, 2>> }

\* weights as written in the file: the defaults, all zero, one zero, only
\* LateAutumn positive, only Storm positive
WeightProfiles ==
    { [k \in SeqToSet(weightKeys) |-> defaultWeatherConfigValues[k]],
      [k \in SeqToSet(weightKeys) |-> Whole(0)],
      [k \in SeqToSet(weightKeys) |-> IF k = "Summer" THEN Whole(0) ELSE Num(2, 5)],
      [k \in SeqToSet(weightKeys) |-> IF k = "LateAutumn" THEN Whole(10) ELSE Whole(0)],
      [k \in SeqToSet(weightKeys) |-> IF k = "Storm" THEN Whole(1) ELSE Whole(0)] }

\* weather settings as merged from a file
WeatherFileSettings ==
    { [k \in DOMAIN defaultWeatherConfigValues |->
         CASE k = "use_fixed_season" -> B(fixed)
           [] k = "use_weight_system" -> B(weighted)
           [] k = "use_random_system" -> B(random)
           [] k = "random_system_mode" -> Whole(mode)
           [] k = "fixed_season_index" -> Whole(index)
           [] k = "exclude_seasons" -> Arr([i \in 1..Len(exclude) |-> Whole(exclude[i])])
           [] OTHER -> weights[k]] :
        fixed \in BOOLEAN, weighted \in BOOLEAN, random \in BOOLEAN,
        mode \in {0, 1}, index \in {1, 5, 7, 9},
        exclude \in ExcludeLists, weights \in WeightProfiles }

ValidatedWeatherSettings ==
    { validateWeatherConfig(config).config : config \in WeatherFileSettings }

InitS ==
    /\ wConfig \in ValidatedWeatherSettings
    /\ wFika = FALSE
    /\ wInitialSet = FALSE
    /\ wOverride = Null
    /\ wHandled = <<>>
    /\ IdleV /\ IdleC /\ IdleL /\ IdleT /\ IdleM /\ IdleH

DetermineSeason ==
    /\ wHandled = <<>>
    /\ \E result \in determineAndSetSeason(wConfig) :
          Handled("determineAndSetSeason", TRUE, result.selectionMethod,
                  result.overrideSeason, wInitialSet)

SpecS == InitS /\ [][DetermineSeason]_vars

(***************************************************************************)
(* Object identity: which objects the loader hands out.  Every object of   *)
(* the process has an address; a settings object holds its list by         *)
(* reference, as a JavaScript object does.                                  *)
(***************************************************************************)
MaxLoads == 2    \* loads of config files in a row
MaxWrites == 2   \* writes to returned objects in a row

\* an address: the expression that made the object, the field it was made
\* for ("" for a settings object) and the load in which it was made
Addr(site, field, load) == [site |-> site, field |-> field, load |-> load]
Ref(a) == [t |-> "ref", a |-> a]

DefaultsName(kind) ==
    IF kind = "main" THEN "defaultMainConfigValues" ELSE "defaultWeatherConfigValues"
DefaultsAddr(kind) == Addr(DefaultsName(kind), "", 0)
DefaultExcludeSeasonsAddr == Addr(DefaultsName("weather"), "exclude_seasons", 0)

\* the objects the two const declarations make when the module is loaded
ModuleHeap ==
    (DefaultsAddr("main") :> defaultMainConfigValues)
    @@ (DefaultsAddr("weather") :>
          [defaultWeatherConfigValues EXCEPT
             !["exclude_seasons"] = Ref(DefaultExcludeSeasonsAddr)])
    @@ (DefaultExcludeSeasonsAddr :> defaultWeatherConfigValues["exclude_seasons"])

\* the fields of an object that hold a reference
RefFields(heap, a) == {k \in DOMAIN heap[a] : heap[a][k].t = "ref"}

\* an object read through its references
Deref(heap, a) ==
    [k \in DOMAIN heap[a] |->
       IF heap[a][k].t = "ref" THEN heap[heap[a][k].a] ELSE heap[a][k]]

\* a copy that takes the fields as they are and so shares the lists
jsonUtil_clone_Shallow(heap, a, to) == (to :> heap[a]) @@ heap

\* jsonUtil.clone: a deep copy, a new object for the lists too
jsonUtil_clone(heap, a, to) ==
    LET CopyOf(k) == Addr(to.site, k, to.load)
    IN  (to :> [k \in DOMAIN heap[a] |->
                  IF heap[a][k].t = "ref" THEN Ref(CopyOf(k)) ELSE heap[a][k]])
        @@ [l \in {CopyOf(k) : k \in RefFields(heap, a)} |-> heap[heap[a][l.field].a]]
        @@ heap

\* step 3 of the loader: mergedConfig is a clone of the defaults that takes
\* the values of the file; a list of the file is the parser's own object
MergedObject(heap, kind, loadedConfig, merged, to) ==
    LET cloned == jsonUtil_clone(heap, DefaultsAddr(kind), to)
        fromFile == IF Truthy(loadedConfig) /\ loadedConfig.t = "obj"
                    THEN {k \in DOMAIN merged : <<k>> \in DOMAIN loadedConfig.val}
                    ELSE {}
        FromFile(k) == Addr("deserialize", k, to.load)
    IN  (to :> [k \in DOMAIN merged |->
                  IF k \notin fromFile THEN cloned[to][k]
                  ELSE IF IsArray(merged[k]) THEN Ref(FromFile(k))
                  ELSE merged[k]])
        @@ [l \in {FromFile(k) : k \in {f \in fromFile : IsArray(merged[f])}} |->
              merged[l.field]]
        @@ cloned

\* step 4 of the loader: the validator works on mergedConfig in place.  A
\* reset assigns a primitive of the defaults; exclude_seasons becomes a new
\* list on either branch: the spread of the default list, or what filter
\* returns
ValidatedObject(heap, kind, to, settings) ==
    IF kind = "main" THEN [heap EXCEPT ![to] = settings]
    ELSE LET isArray == heap[to]["exclude_seasons"].t = "ref"
             list == Addr(IF isArray THEN "filter" ELSE "spread",
                          "exclude_seasons", to.load)
         IN  (list :> IF isArray THEN settings["exclude_seasons"]
                      ELSE heap[DefaultExcludeSeasonsAddr])
             @@ [heap EXCEPT ![to] = [settings EXCEPT !["exclude_seasons"] = Ref(list)]]

\* the heap after loadAndValidateConfigFile returned the object at `to`
LoadedObject(heap, kind, outcome, to) ==
    IF outcome.path \in {"readError", "empty", "parseThrew"}
    THEN jsonUtil_clone(heap, DefaultsAddr(kind), to)
    ELSE ValidatedObject(MergedObject(heap, kind, outcome.loaded, outcome.merged, to),
                         kind, to, outcome.settings)

\* config files of each shape the loader tells apart: none, text that does
\* not parse, a list where a number belongs, a list of the user, a number
\* where the list belongs, no list
IdentityFiles(kind) ==
    { NoFile, File(TRUE, <<"{", " ", "\"", "Storm", "\"", ":">>) }
    \cup (IF kind = "main"
          THEN { File(TRUE, UserText("main", ("stacksize_lega" :> ListLiteral(<<"1">>)),
                                     {"enableDebugLogs"}, <<>>)) }
          ELSE { File(TRUE, UserText("weather", ("exclude_seasons" :> list), {}, <<>>)) :
                   list \in { ListLiteral(<<"7", "0">>), <<"5">> } }
               \cup { File(TRUE, UserText("weather", <<>>, {"exclude_seasons"}, <<>>)) })

\* what a holder of a settings object may assign to one of its fields
WrittenValues == {Whole(3)}
WrittenKeys(kind) ==
    IF kind = "main" THEN {"stacksize_lega"} ELSE {"fixed_season_index"}

InitH ==
    /\ hHeap = ModuleHeap
    /\ hReturned = <<>>
    /\ hWrites = 0
    /\ IdleV /\ IdleC /\ IdleL /\ IdleT /\ IdleM /\ IdleW

\* loadMainConfig or loadWeatherConfig returns a settings object to its caller
LoadConfig ==
    /\ Len(hReturned) < MaxLoads
    /\ \E kind \in Kinds, throws \in BOOLEAN :
         \E file \in IdentityFiles(kind) :
           \E outcome \in {loadAndValidateConfigFile(kind, file, SanitizeAndParse(file.text),
                                                     FALSE, throws, FALSE, FALSE, FALSE)} :
             LET to == Addr(IF outcome.path \in {"readError", "empty", "parseThrew"}
                            THEN "clone" ELSE "mergedConfig",
                            "", Len(hReturned) + 1)
             IN  /\ hHeap' = LoadedObject(hHeap, kind, outcome, to)
                 /\ hReturned' = Append(hReturned,
                                        [kind |-> kind, at |-> to, path |-> outcome.path,
                                         settings |-> outcome.settings])
    /\ UNCHANGED <<hWrites, varsV, varsC, varsL, varsT, varsM, varsW>>

\* a holder of a returned settings object assigns to one of its fields, or
\* pushes a season onto its exclusion list
WriteToReturned ==
    /\ hWrites < MaxWrites
    /\ \E i \in 1..Len(hReturned) :
         LET object == hReturned[i].at IN
         \/ \E key \in WrittenKeys(hReturned[i].kind), v \in WrittenValues :
              /\ hHeap[object][key] # v
              /\ hHeap' = [hHeap EXCEPT ![object][key] = v]
         \/ /\ hReturned[i].kind = "weather"
            /\ hHeap' = [hHeap EXCEPT ![hHeap[object]["exclude_seasons"].a] =
                                         Arr(Append(@.a, Whole(0)))]
    /\ hWrites' = hWrites + 1
    /\ UNCHANGED <<hReturned, varsV, varsC, varsL, varsT, varsM, varsW>>

NextH == LoadConfig \/ WriteToReturned

SpecH == InitH /\ [][NextH]_vars

(***************************************************************************)
(* Claims about the validators (checked under SpecV)                       *)
(***************************************************************************)
AllSeasonIndices == {Whole(i) : i \in 0..6}

\* the entries of an exclusion list that survive the filter of invalid entries
ValidEntries(v) == {e \in SeqToSet(v.a) : ValidSeasonIndex(e)}

FirstWeatherValidationDone == vKind = "weather" /\ vRuns = 1

\* C2: whenever exclude_seasons, once its invalid entries are dropped, holds
\* every index 0..6 (in any order), the validated list holds no 6, still holds
\* each of 0..5, and exclude_seasons is among the reset keys; the input
\* [0,1,2,3,4,5,6] yields exactly [0,1,2,3,4,5].
C2_ExcludeAllKeepsStorm ==
    (/\ FirstWeatherValidationDone
     /\ IsArray(vInput["exclude_seasons"])
     /\ AllSeasonIndices \subseteq ValidEntries(vInput["exclude_seasons"]))
    => /\ IsArray(vConfig["exclude_seasons"])
       /\ Whole(6) \notin SeqToSet(vConfig["exclude_seasons"].a)
       /\ (AllSeasonIndices \ {Whole(6)}) \subseteq SeqToSet(vConfig["exclude_seasons"].a)
       /\ "exclude_seasons" \in SeqToSet(vResetKeys)
       /\ (vInput["exclude_seasons"].a = [i \in 1..7 |-> Whole(i - 1)]
             => vConfig["exclude_seasons"].a = [i \in 1..6 |-> Whole(i - 1)])

\* C2 witness: the full range, given in descending order among invalid
\* entries, has been validated
C2_Witness ==
    /\ FirstWeatherValidationDone
    /\ IsArray(vInput["exclude_seasons"])
    /\ Len(vInput["exclude_seasons"].a) > 7
    /\ AllSeasonIndices \subseteq ValidEntries(vInput["exclude_seasons"])
    /\ vInput["exclude_seasons"].a[1] = Whole(7)

\* C3: a second validation of an already validated object leaves it unchanged
\* and returns an empty reset-key list (both config kinds).
C3_ValidationIdempotent ==
    vRuns >= 2 => (vConfig = vPrev /\ vResetKeys = <<>>)

(***************************************************************************)
(* Claims about the feature modules (checked under SpecC)                  *)
(***************************************************************************)
\* C4: running PlantTimeModule.applyPlantTimeChanges a second time with the
\* same settings on the quest data the first run left changes nothing, for
\* any modifier values.
C4_PlantTimeIdempotent ==
    (cModule = "plantTime" /\ cRuns >= 2) => host = hostPrev

\* C5: a second run of CoreModule.runPostDbLogic, of
\* LostOnDeathModule.applyLostOnDeathChanges, of AmmoModule.applyAllChanges
\* or of WeaponModule.applyWeaponChanges with the same settings on the data
\* the first run left changes nothing.
C5_ConsumersIdempotent ==
    (cModule \in {"core", "lostOnDeath", "ammo", "weapon"} /\ cRuns >= 2)
    => host = hostPrev

\* C5 witness: the core module ran twice and its first run put the Lega
\* medal into the money case filter and changed the medal's stack size
C5_Witness ==
    /\ cModule = "core" /\ cRuns = 2
    /\ MONEY_CASE_ID \in DOMAIN host.items
    /\ IsArray(hostFirst.items[MONEY_CASE_ID].Filter)
    /\ LEGA_MEDAL_ID \notin SeqToSet(hostFirst.items[MONEY_CASE_ID].Filter.a)
    /\ LEGA_MEDAL_ID \in SeqToSet(host.items[MONEY_CASE_ID].Filter.a)
    /\ host.items[LEGA_MEDAL_ID].StackMaxSize # hostFirst.items[LEGA_MEDAL_ID].StackMaxSize
    /\ host.pmcChat # hostFirst.pmcChat

(***************************************************************************)
(* Claims about the loader (checked under Spec)                            *)
(***************************************************************************)
IsBoolean(v) == v.t = "bool"
IsIntegerIn(v, min, max) == v.t = "num" /\ v.f = 0 /\ v.i \in min..max
IsNonNegativeFinite(v) == v.t = "num" /\ v.i >= 0

\* the declared constraints of the main settings
MainConstraints(c) ==
    /\ \A k \in SeqToSet(MainBooleanKeys) : IsBoolean(c[k])
    /\ IsIntegerIn(c["stacksize_lega"], 1, 999)
    /\ \/ IsBoolean(c["disablePMC_ChatResponse"])
       \/ IsIntegerIn(c["disablePMC_ChatResponse"], 1, 100)
    /\ IsNonNegativeFinite(c["leaveItemAtLocationModifier"])
    /\ IsNonNegativeFinite(c["placeBeaconModifier"])

\* the declared constraints of the weather settings
WeatherConstraints(c) ==
    /\ \A k \in {"use_fixed_season", "use_weight_system", "use_random_system"} :
          IsBoolean(c[k])
    /\ IsIntegerIn(c["fixed_season_index"], 1, 7)
    /\ IsIntegerIn(c["random_system_mode"], 0, 1)
    /\ c["exclude_seasons"].t = "arr"
    /\ \A e \in SeqToSet(c["exclude_seasons"].a) : IsIntegerIn(e, 0, 6)
    /\ \A k \in SeqToSet(weightKeys) : IsNonNegativeFinite(c[k])

Constraints(kind, c) ==
    /\ DOMAIN c = DOMAIN Defaults(kind)
    /\ IF kind = "main" THEN MainConstraints(c) ELSE WeatherConstraints(c)

\* C1: whatever the file held (missing keys, unknown keys, wrong types,
\* out-of-range values, or no usable content at all), the settings returned
\* by loadMainConfig and by loadWeatherConfig satisfy every declared field
\* constraint: booleans are booleans, stacksize_lega is an integer in 1..999,
\* disablePMC_ChatResponse is a boolean or an integer in 1..100, the
\* plant-time modifiers and the seven season weights are finite and >= 0,
\* fixed_season_index is an integer in 1..7, random_system_mode is 0 or 1,
\* and exclude_seasons is a list of integers in 0..6.
C1_SettingsSatisfyConstraints ==
    \A kind \in Kinds :
        lastLoad[kind].done => Constraints(kind, lastLoad[kind].settings)

\* C1 witness: a weather file with fixed_season_index = 8 has been loaded:
\* the merged object broke a constraint and validation reset the key
C1_Witness ==
    /\ lastLoad.weather.done
    /\ lastLoad.weather.path = "object"
    /\ ~WeatherConstraints(lastLoad.weather.merged)
    /\ lastLoad.weather.merged["fixed_season_index"] = Whole(8)
    /\ lastLoad.weather.resetKeys # <<>>

FailurePaths == {"readError", "empty", "parseThrew", "undefined"}

\* C7: on every failure path of the loader (read error, empty or
\* whitespace-only sanitized text, JSON parse failure whether the parser
\* throws or yields no object) the returned settings equal the defaults, no
\* key is reset, and the file on disk is not overwritten, auto-update
\* enabled or not.
C7_FailureKeepsDefaultsAndFile ==
    \A kind \in Kinds :
        (lastLoad[kind].done /\ lastLoad[kind].path \in FailurePaths)
        => /\ lastLoad[kind].settings = Defaults(kind)
           /\ lastLoad[kind].resetKeys = <<>>
           /\ lastLoad[kind].after = lastLoad[kind].before

\* C8: when ensureFileExists cannot create a missing config file, the
\* caller goes on with the in-memory defaults and does not attempt to read
\* that file.
C8_NoReadAfterFailedCreation ==
    \A kind \in Kinds :
        (lastLoad[kind].done /\ ensured[kind] = "failed")
        => /\ ~lastLoad[kind].readAttempted
           /\ lastLoad[kind].settings = Defaults(kind)

\* C9: starting without the config file of a kind, ensureFileExists writes
\* the bundled template text verbatim, the load that follows parses that
\* text (or meets a read error) and returns settings equal to the defaults
\* of the kind field for field, with an empty reset-key list and
\* needsRewrite false, and the file still holds the template text afterwards.
C9_FreshFileLoadsToDefaults ==
    \A kind \in Kinds :
        (lastLoad[kind].done /\ ensured[kind] = "created")
        => /\ lastLoad[kind].before = File(TRUE, Template(kind))
           /\ lastLoad[kind].path \in {"object", "readError"}
           /\ lastLoad[kind].settings = Defaults(kind)
           /\ lastLoad[kind].resetKeys = <<>>
           /\ ~lastLoad[kind].needsRewrite
           /\ lastLoad[kind].after = File(TRUE, Template(kind))

\* C9 witness: the weather file was missing, has been created and loaded
\* with auto-update enabled
C9_Witness ==
    /\ lastLoad.weather.done
    /\ ensured.weather = "created"
    /\ lastLoad.weather.path = "object"
    /\ lastLoad.weather.allow
    /\ lastLoad.weather.merged = defaultWeatherConfigValues

\* the main file of the example: an unknown key foo, no stacksize_lega
FooWithoutStackSize == UserText("main", <<>>, {"stacksize_lega"}, FooLine)

\* C10: in the merge of a parsed object, every key of the defaults that the
\* file holds takes the file's value as it is (no coercion), no key outside
\* the defaults reaches the result, every key of the defaults that the file
\* lacks takes the default value, and needsRewrite is true whenever the file
\* lacks a key of the defaults; the file with foo and without
\* stacksize_lega gives stacksize_lega = 50, no foo, needsRewrite = true.
C10_MergeKeepsFileValues ==
    \A kind \in Kinds :
        (lastLoad[kind].done /\ lastLoad[kind].path = "object")
        => LET file == lastLoad[kind].loaded.val
               merged == lastLoad[kind].merged
           IN  /\ DOMAIN merged = DOMAIN Defaults(kind)
               /\ \A k \in DOMAIN Defaults(kind) :
                     merged[k] = IF <<k>> \in DOMAIN file THEN file[<<k>>]
                                 ELSE Defaults(kind)[k]
               /\ (\E k \in DOMAIN Defaults(kind) : <<k>> \notin DOMAIN file)
                     => lastLoad[kind].needsRewrite
               /\ (kind = "main" /\ lastLoad[kind].before.text = FooWithoutStackSize)
                     => /\ <<"foo">> \in DOMAIN file
                        /\ merged["stacksize_lega"] = Whole(LEGA_DEFAULT_STACK)
                        /\ lastLoad[kind].needsRewrite

\* C10 witness: the example file has been loaded
C10_Witness ==
    /\ lastLoad.main.done
    /\ lastLoad.main.path = "object"
    /\ lastLoad.main.before.text = FooWithoutStackSize
    /\ <<"foo">> \in DOMAIN lastLoad.main.loaded.val
    /\ <<"stacksize_lega">> \notin DOMAIN lastLoad.main.loaded.val
    /\ lastLoad.main.merged["stacksize_lega"] = Whole(50)
    /\ lastLoad.main.needsRewrite

(***************************************************************************)
(* Claims about single fields of the validators                            *)
(***************************************************************************)
FirstMainValidationDone == vKind = "main" /\ vRuns = 1

\* C11: validateMainConfig keeps a boolean disablePMC_ChatResponse and an
\* integer in 1..100 as they are, resets an integer outside 1..100 and a
\* value of any other type (the string "yes") to false, and lists the key
\* among the reset keys in exactly the two reset cases.
C11_PmcChatResponse ==
    FirstMainValidationDone
    => LET in == vInput["disablePMC_ChatResponse"]
           out == vConfig["disablePMC_ChatResponse"]
           reset == "disablePMC_ChatResponse" \in SeqToSet(vResetKeys)
       IN  /\ (IsBoolean(in) \/ IsIntegerIn(in, 1, 100)) => (out = in /\ ~reset)
           /\ (IsInteger(in) /\ ~IsIntegerIn(in, 1, 100)) => (out = B(FALSE) /\ reset)
           /\ TypeOf(in) \notin {"boolean", "number"} => (out = B(FALSE) /\ reset)

\* C11 witness: the integer 150 has been validated, next to an invalid
\* stack size
C11_Witness ==
    /\ FirstMainValidationDone
    /\ vInput["disablePMC_ChatResponse"] = Whole(150)
    /\ vInput["stacksize_lega"] = Whole(0)
    /\ vConfig["disablePMC_ChatResponse"] = B(FALSE)

\* C12: validateMainConfig floors a non-integer disablePMC_ChatResponse that
\* lies within 1..100 (55.7 becomes 55) and keeps it, without a reset.
C12_PmcChatResponseFloored ==
    (/\ FirstMainValidationDone
     /\ vInput["disablePMC_ChatResponse"].t = "num"
     /\ vInput["disablePMC_ChatResponse"].f # 0
     /\ vInput["disablePMC_ChatResponse"].i \in 1..99)
    => /\ vConfig["disablePMC_ChatResponse"] = Whole(vInput["disablePMC_ChatResponse"].i)
       /\ "disablePMC_ChatResponse" \notin SeqToSet(vResetKeys)

\* C14: a validator checks every field whatever failed before, and the
\* reset-key list it returns holds exactly the keys it reset, each once, in
\* the order in which the settings type declares the fields.
C14_ResetKeysInDeclarationOrder ==
    vRuns = 1
    => vResetKeys = SelectSeq2(KeysOf(vKind),
                               [i \in 1..Len(KeysOf(vKind)) |->
                                  vConfig[KeysOf(vKind)[i]] # vInput[KeysOf(vKind)[i]]])

\* the Lega medal as the host holds it: vanilla, or changed by someone else
LegaStacksBefore == {50, 999}

Contains(t, p) ==
    \E i \in 1..(Len(t) - Len(p) + 1) : SubSeq(t, i, i + Len(p) - 1) = p

\* C15: stripJsonComments removes no // that stands inside a quoted string,
\* whatever precedes it ("a//b" as well as "http://x"): every string of the
\* input that holds // is in the output with its content unchanged.
C15_StringsKeepSlashes ==
    (tOp = "strip" /\ tRuns = 1)
    => \A content \in tInput.strings :
          Contains(content, <<"/", "/">>) => Contains(tOut, Quoted(content))

\* C16: stripJsonComments removes every block comment and every // line
\* comment outside a string, whatever stands right before the // (a closing
\* quote, a colon), so that valid JSONC with at most one trailing comma per
\* closer parses as strict JSON after stripJsonComments and
\* fixTrailingCommas, to the value it denotes.
C16_SanitizedJsoncParses ==
    (tOp = "sanitize" /\ tInput.wellFormed)
    => /\ JsonParse(tOut).ok
       /\ JsonParse(tOut).v = tInput.value

\* C17: stripJsonComments and fixTrailingCommas are idempotent: applied to
\* its own output, each returns that output unchanged.
C17_TextFunctionsIdempotent ==
    (tOp \in {"strip", "fix"} /\ tRuns >= 2) => tOut = tPrev

\* C18: a key of the settings without a matching line in the template does
\* not abort rebuildConfigStringWithComments: it returns text (not null) in
\* which every key that has a line carries JSON.stringify of its value
\* between the unchanged key prefix and the unchanged comma and comment, and
\* every other line is the template's.
C18_RebuildSkipsMissingKeys ==
    tOp = "rebuild"
    => /\ tOut # <<>>
       /\ tOut = UserText(tInput.kind,
                          [k \in DOMAIN Defaults(tInput.kind) \ tInput.drop |->
                             JsonStringify(tInput.data[k])],
                          tInput.drop, tInput.extra)

\* C18 witness: a main template without the lines of two keys, with a line
\* of its own, has been rebuilt with a stack size of 999
C18_Witness ==
    /\ tOp = "rebuild"
    /\ tInput.kind = "main"
    /\ tInput.drop = {"use_weather_module", "enableDebugLogs"}
    /\ tInput.extra = FooLine
    /\ tInput.data["stacksize_lega"] = Whole(999)
    /\ tOut # tInput.text
    /\ Contains(tOut, <<"\"", "stacksize_lega", "\"", ":", " ", "999", ",">>)

(***************************************************************************)
(* Claims about the lifecycle (checked under SpecM)                        *)
(***************************************************************************)
\* the module whose constructor or apply method throws, if any
FailingModules ==
    IF mThrows.at \in {"constructor", "apply"} THEN {mThrows.unit} ELSE {}

EnabledModules ==
    IF mConfig = Null THEN {}
    ELSE { unit \in ModuleNames : ModuleEnabled(mConfig, unit) }

\* C19: if the constructor or the apply method of one module throws,
\* preSptLoad and postDBLoad (and postSptLoad) still return, the failing
\* module is not initialized or its step is skipped, and every other
\* enabled module is initialized and has its changes applied.
C19_FailureIsolation ==
    (mPhase # "constructed" /\ mConfig # Null
        /\ mThrows.at \in {"none", "constructor", "apply"})
    => /\ ~mAborted
       /\ mThrows.at = "constructor" => mThrows.unit \notin mInstances
       /\ EnabledModules \ {u \in FailingModules : mThrows.at = "constructor"}
             \subseteq mInstances
       /\ mApplied \cap FailingModules = {}
       /\ mPhase \in {"postDBLoad", "postSptLoad"}
             => (EnabledModules \ (FailingModules \cup {"Weather"})) \subseteq mApplied
       /\ mPhase = "postSptLoad"
             => (EnabledModules \ FailingModules) \subseteq mApplied

\* C19 witness: all modules are switched on, the constructor of AmmoModule
\* threw, and postDBLoad has applied the changes of the four other modules
\* it runs
C19_Witness ==
    /\ mPhase = "postDBLoad"
    /\ mThrows = [at |-> "constructor", unit |-> "Ammo"]
    /\ EnabledModules = ModuleNames
    /\ mInstances = ModuleNames \ {"Ammo"}
    /\ mApplied = {"Core", "PlantTime", "LostOnDeath", "Weapon"}

(***************************************************************************)
(* Claims about the weather routes (checked under SpecW)                   *)
(***************************************************************************)
\* C20: with FIKA detected, whatever the order of the requests: once the
\* initial season is set, no /client/weather request changes the override;
\* every /fika/raid/create request determines the season anew; and the
\* initial season is the one set by the first /client/weather request
\* (the request that finds the initial season not yet set is a
\* /client/weather request, and the first /client/weather request
\* determines the season).
C20_InitialSeasonFromClientWeather ==
    wFika
    => \A i \in 1..Len(wHandled) :
          LET request == wHandled[i]
              firstClientWeather ==
                 /\ request.route = "/client/weather"
                 /\ \A j \in 1..(i - 1) : wHandled[j].route # "/client/weather"
          IN  /\ (request.route = "/client/weather" /\ request.initialSetBefore)
                    => (~request.determined /\ request.after = request.before)
              /\ request.route = "/fika/raid/create" => request.determined
              /\ ~request.initialSetBefore => request.route = "/client/weather"
              /\ firstClientWeather => request.determined

(***************************************************************************)
(* Claims about the choice of the season (checked under SpecS and SpecW)   *)
(***************************************************************************)
SeasonDetermined == Len(wHandled) = 1 /\ wHandled[1].route = "determineAndSetSeason"

\* the seasons the settings exclude
ExcludedSeasons == SeqToSet(wConfig["exclude_seasons"].a)

\* the mode the flags of the settings select
ActiveMode ==
    IF wConfig["use_fixed_season"] = B(TRUE) THEN "Fixed"
    ELSE IF wConfig["use_weight_system"] = B(TRUE) THEN "Weighted Random"
    ELSE IF wConfig["random_system_mode"] = Whole(0) THEN "Auto Random (All)"
    ELSE "Auto Random (Available)"

\* what a determination may leave in the override
PossibleSeasons == { result.overrideSeason : result \in determineAndSetSeason(wConfig) }

\* C21: for validated weather settings, Weighted mode and Auto Random mode 1
\* never select a season listed in exclude_seasons; Fixed mode selects
\* fixed_season_index - 1 and Auto Random mode 0 draws from all seven
\* seasons, both whatever exclude_seasons holds.
C21_ExclusionByMode ==
    SeasonDetermined
    => /\ ActiveMode \in {"Weighted Random", "Auto Random (Available)"}
             => /\ wOverride \notin ExcludedSeasons
                /\ PossibleSeasons \cap ExcludedSeasons = {}
       /\ ActiveMode = "Fixed"
             => /\ wOverride = Whole(wConfig["fixed_season_index"].i - 1)
                /\ PossibleSeasons = {wOverride}
       /\ ActiveMode = "Auto Random (All)"
             => /\ wOverride \in {Whole(i) : i \in 0..6}
                /\ PossibleSeasons = {Whole(i) : i \in 0..6}

\* C21 witness: Auto Random mode 0 selected Autumn although the settings
\* exclude Summer, Autumn and Winter
C21_Witness ==
    /\ SeasonDetermined
    /\ ActiveMode = "Auto Random (All)"
    /\ wConfig["exclude_seasons"] = Arr(<<Whole(0), Whole(1), Whole(2)>>)
    /\ wOverride = Whole(1)

\* C22: in Weighted mode a season whose configured weight is 0 is never
\* selected, whatever the validated weights and the exclusion list are,
\* also when every available season has weight 0.
C22_ZeroWeightNeverSelected ==
    (SeasonDetermined /\ ActiveMode = "Weighted Random")
    => wConfig[weightKeys[wOverride.i + 1]] # Whole(0)

C26_OverrideIsSeasonIndex ==
    /\ \A i \in 1..Len(wHandled) :
          wHandled[i].determined
          => /\ wHandled[i].after # Null
             /\ IsIntegerIn(wHandled[i].after, 0, 6)
    /\ wHandled # <<>> => {Whole(i) : i \in 0..6} \ ExcludedSeasons # {}

\* C26 witness: the settings were validated from a list of all seven
\* seasons, and three requests have been handled with FIKA, the last one
\* leaving Storm
C26_Witness ==
    /\ wFika
    /\ Len(wHandled) = 3
    /\ wConfig["exclude_seasons"] = Arr([i \in 1..6 |-> Whole(i - 1)])
    /\ wHandled[3].determined
    /\ wOverride = Whole(6)

(***************************************************************************)
(* Claims about the lootability tweak (checked under SpecC)                *)
(***************************************************************************)
CoreRan == cModule = "core" /\ cRuns >= 1

Lootability(item) == <<item.Unlootable, item.UnlootableFromSide>>

\* C24: whatever LootArmbands and LootMelee are and whatever the item table
\* holds, Unlootable and UnlootableFromSide of every item of
\* LOOTABILITY_BLACKLIST are after a run of CoreModule what they were
\* before, and only items whose parent is the armband or the melee class
\* differ in these two fields.
C24_BlacklistNeverLootable ==
    CoreRan
    => \A itemId \in DOMAIN host.items :
          /\ itemId \in LOOTABILITY_BLACKLIST
                => /\ Lootability(host.items[itemId]) = Lootability(hostPrev.items[itemId])
                   /\ Lootability(host.items[itemId]) = Lootability(hostFirst.items[itemId])
          /\ Lootability(host.items[itemId]) # Lootability(hostPrev.items[itemId])
                => hostPrev.items[itemId]._parent \in {ARMBAND_PARENT_ID, MELEE_PARENT_ID}

\* C24 witness: with LootMelee on, the first run of CoreModule made the
\* knife lootable and left the blacklisted kukri, a melee weapon too,
\* unlootable
C24_Witness ==
    /\ cModule = "core" /\ cRuns = 1
    /\ "items" \in host.has
    /\ cSettings["LootMelee"] = B(TRUE)
    /\ hostPrev.items["melee_knife"].Unlootable
    /\ ~host.items["melee_knife"].Unlootable
    /\ host.items["65ca457b4aafb5d7fc0dcb5d"]._parent = MELEE_PARENT_ID
    /\ host.items["65ca457b4aafb5d7fc0dcb5d"].Unlootable

(***************************************************************************)
(* Claims about the lifecycle and the host's data (checked under SpecM)    *)
(***************************************************************************)
\* the optional modules the loaded settings switch off
DisabledModules ==
    IF mConfig = Null THEN {}
    ELSE { unit \in DOMAIN ModuleFlag : mConfig[ModuleFlag[unit]] = B(FALSE) }

ItemField(data, field) == [itemId \in DOMAIN data.items |-> data.items[itemId][field]]

\* the part of the host's data a module writes is what it was when the
\* server loaded the mod
DataUntouched(unit) ==
    CASE unit = "PlantTime" -> host.quests = hostFirst.quests
      [] unit = "Ammo" -> ItemField(host, "Weight") = ItemField(hostFirst, "Weight")
      [] unit = "Weapon" ->
           /\ ItemField(host, "ExtraSizeUp") = ItemField(hostFirst, "ExtraSizeUp")
           /\ ItemField(host, "ExtraSizeDown") = ItemField(hostFirst, "ExtraSizeDown")
      [] unit = "Weather" -> mRoutes = {} /\ wOverride = Null

\* C25: a module whose use_*_module flag is false in the final main
\* settings (weather, plant time, ammo, weapon) is never constructed and
\* changes nothing in any hook: plant times, item weights, ExtraSizeUp and
\* ExtraSizeDown and the season override stay as they were, and no weather
\* route is registered.
C25_DisabledModuleChangesNothing ==
    \A unit \in DisabledModules :
       /\ unit \notin mInstances
       /\ unit \notin mApplied
       /\ DataUntouched(unit)

\* C25 witness: only the plant time module is switched on, with tweaks that
\* change data; all hooks have run, the plant times changed, weights and
\* sizes did not and no route exists
C25_Witness ==
    /\ mPhase = "postSptLoad"
    /\ mConfig = [ActiveTweaks EXCEPT !["use_plant_time_module"] = B(TRUE)]
    /\ mThrows = NoFault
    /\ DisabledModules = {"Weather", "Ammo", "Weapon"}
    /\ host.quests # hostFirst.quests
    /\ mInstances = {"Core", "PlantTime", "LostOnDeath"}

\* C29: as long as the main settings have not been loaded, no module exists
\* and the host's data is untouched: postDBLoad and postSptLoad called
\* before preSptLoad, or after a preSptLoad that found no logger, return
\* without a change.
C29_NoChangeBeforeSettings ==
    mConfig = Null
    => /\ host = hostFirst
       /\ mInstances = {}
       /\ mApplied = {}
       /\ mRoutes = {}
       /\ wOverride = Null
       /\ ~mAborted

\* C29 witness: preSptLoad found no logger, postDBLoad and postSptLoad ran
\* after it
C29_Witness ==
    /\ mPhase = "postSptLoad"
    /\ mThrows = [at |-> "resolve", unit |-> "logger"]
    /\ mConfig = Null
    /\ host = hostFirst

(***************************************************************************)
(* Claims about restarts (checked under SpecR)                             *)
(***************************************************************************)
\* the load of the start before rewrote the file and the last load read
\* what it wrote
ReloadedAfterRewrite(kind) ==
    /\ prevLoad[kind].done /\ lastLoad[kind].done
    /\ prevLoad[kind].allow /\ prevLoad[kind].rebuilt
    /\ prevLoad[kind].after # prevLoad[kind].before
    /\ lastLoad[kind].before = prevLoad[kind].after
    /\ lastLoad[kind].path = "object"

\* C27: if a load with auto-update on rewrote a config file, the next load
\* of the rewritten file finds no missing key, resets no key, returns the
\* settings of the first load and does not write the file again.
C27_RewriteConverges ==
    \A kind \in Kinds :
        ReloadedAfterRewrite(kind)
        => /\ ~MissingDefaultKey(lastLoad[kind].loaded, Defaults(kind))
           /\ lastLoad[kind].resetKeys = <<>>
           /\ lastLoad[kind].settings = prevLoad[kind].settings
           /\ ~lastLoad[kind].needsRewrite
           /\ ~lastLoad[kind].rebuilt

(***************************************************************************)
(* Claims about the auto-update flag (checked under Spec)                  *)
(***************************************************************************)
\* the preliminary read and the read of the loader saw the same file
SameFileRead ==
    /\ lastLoad.main.done
    /\ lastLoad.main.preliminaryReadFailed = (lastLoad.main.path = "readError")

\* C28: the auto-update flag loadMainConfig takes from its preliminary read
\* of the raw file equals allow_autoupdate_configs of the validated
\* settings it returns, whatever the file holds (text that does not parse,
\* a flag that is no boolean), given that both reads see the same file.
C28_PreliminaryFlagIsFinalFlag ==
    SameFileRead
    => lastLoad.main.settings["allow_autoupdate_configs"] = B(lastLoad.main.allow)

\* C28 witness: the file sets the flag to the number 150; the preliminary
\* read kept false and the validator reset the flag to false
C28_Witness ==
    /\ SameFileRead
    /\ lastLoad.main.path = "object"
    /\ lastLoad.main.merged["allow_autoupdate_configs"] = Whole(150)
    /\ "allow_autoupdate_configs" \in SeqToSet(lastLoad.main.resetKeys)
    /\ ~lastLoad.main.allow

(***************************************************************************)
(* Claims about the default objects (checked under SpecH)                  *)
(***************************************************************************)
DefaultAddresses == {DefaultsAddr("main"), DefaultsAddr("weather"), DefaultExcludeSeasonsAddr}

\* the objects reachable from a settings object: itself and its lists
ObjectsOf(heap, a) == {a} \cup {heap[a][k].a : k \in RefFields(heap, a)}

\* C30: the default objects keep the values of their declaration through
\* every sequence of loads (with their validations and resets) and of
\* writes to the objects the loads returned: every returned settings object
\* is an object of its own, its exclude_seasons list included, apart from
\* the defaults and from every other returned object.
C30_DefaultsNeverChange ==
    hReturned # <<>>
    => /\ \A kind \in Kinds : Deref(hHeap, DefaultsAddr(kind)) = Defaults(kind)
       /\ \A i \in 1..Len(hReturned) :
            /\ ObjectsOf(hHeap, hReturned[i].at) \cap DefaultAddresses = {}
            /\ \A j \in 1..Len(hReturned) :
                 i # j => ObjectsOf(hHeap, hReturned[i].at)
                            \cap ObjectsOf(hHeap, hReturned[j].at) = {}

\* C30 witness: a weather load reset exclude_seasons to the default list,
\* its holder pushed a season onto the returned list, a later load that
\* fell back to the defaults returned the declared values
C30_Witness ==
    \E i, j \in 1..Len(hReturned) :
      /\ i < j
      /\ hReturned[i].kind = "weather" /\ hReturned[j].kind = "weather"
      /\ hHeap[hReturned[i].at]["exclude_seasons"].a.site = "spread"
      /\ hReturned[i].settings["exclude_seasons"] = Arr(<<>>)
      /\ Deref(hHeap, hReturned[i].at)["exclude_seasons"] = Arr(<<Whole(0)>>)
      /\ hReturned[j].path = "readError"
      /\ Deref(hHeap, hReturned[j].at) = defaultWeatherConfigValues
      /\ Deref(hHeap, DefaultsAddr("weather")) = defaultWeatherConfigValues

====
